---------------------------- MODULE Spec2Model ----------------------------
(***************************************************************************)
(* Lifecycle cost-effectiveness engines of whatnut: the age-indexed curves *)
(* (lifecycle.py, lifecycle_pathways.py), LifecycleCEA and                 *)
(* PathwayLifecycleCEA (run, run_monte_carlo) and MonteCarloSimulation     *)
(* (simulation.py).                                                        *)
(*                                                                         *)
(* Numbers.  Python floats are modelled as decimal fixed-point integers    *)
(* with five decimals (1.0 is Scale): the life table, the quality weights, *)
(* the cause fractions and the relative risks of the source are exact at   *)
(* that scale.  Every product and quotient rounds once, as a float         *)
(* operation does; all intermediate values stay inside 32 bits.            *)
(***************************************************************************)
EXTENDS Integers, Sequences, FiniteSets, TLC

Scale == 100 * 1000
HalfScale == Scale \div 2

\* The numeric helpers are functions, not operators: a function is applied
\* to the values of its arguments, as a Python call is.
Abs[x \in Int] == IF x < 0 THEN -x ELSE x
Sgn[x \in Int] == IF x < 0 THEN -1 ELSE 1
Min2[a \in Int, b \in Int] == IF a <= b THEN a ELSE b
Max2[a \in Int, b \in Int] == IF a >= b THEN a ELSE b

\* a * b of two non-negative fixed-point numbers, rounded to nearest.  The
\* product is split so that no partial product leaves 32 bits.
MulNN[a \in Nat, b \in Nat] ==
    LET ah == a \div Scale
        al == a % Scale
        bh == b \div Scale
        bl == b % Scale
        a1 == al \div 1000
        a0 == al % 1000
    IN  ah * b + al * bh + ((a1 * bl + ((a0 * bl + HalfScale) \div 1000)) \div 100)

\* The float product a * b.
MulFix[a \in Int, b \in Int] == Sgn[a] * Sgn[b] * MulNN[Abs[a], Abs[b]]

\* The first k decimals of r / b, for 0 <= r < b.
DivDigits[r \in Nat, b \in Nat, k \in Nat] ==
    IF k = 0 THEN 0
    ELSE (((r * 10) \div b) * (10 ^ (k - 1))) + DivDigits[(r * 10) % b, b, k - 1]

\* a / b of non-negative a and positive b, by long division, rounded to the
\* nearest fifth decimal.
DivNN[a \in Nat, b \in Nat] == ((a \div b) * Scale) + ((DivDigits[a % b, b, 6] + 5) \div 10)

\* The float quotient a / b, b # 0.
DivFix[a \in Int, b \in Int] == Sgn[a] * Sgn[b] * DivNN[Abs[a], Abs[b]]

\* x ** t for a non-negative integer t (float ** int), by repeated product.
PowInt[x \in Int, t \in Nat] == IF t = 0 THEN Scale ELSE MulFix[PowInt[x, t - 1], x]

\* ln(2).
Ln2 == 69315

\* ln(y) for y in [0.75, 1.5): 2 * atanh(z) with z = (y - 1) / (y + 1), four terms.
AtanhSeries[z \in Int] ==
    LET z2 == MulFix[z, z]
        z3 == MulFix[z2, z]
        z5 == MulFix[z3, z2]
        z7 == MulFix[z5, z2]
    IN  2 * (z + (z3 \div 3) + (z5 \div 5) + (z7 \div 7))

\* np.log(x), x > 0: halve or double into [0.75, 1.5), then the series.
LnFix[x \in Nat] ==
    IF x < 75000 THEN LnFix[2 * x] - Ln2
    ELSE IF x >= 150000 THEN LnFix[x \div 2] + Ln2
    ELSE AtanhSeries[DivFix[x - Scale, x + Scale]]

\* exp(r) for |r| <= ln(2)/2, Taylor series to the sixth power.
ExpSeries[r \in Int] ==
    LET r2 == MulFix[r, r]
        r3 == MulFix[r2, r]
        r4 == MulFix[r2, r2]
        r5 == MulFix[r3, r2]
        r6 == MulFix[r3, r3]
    IN  Scale + r + (r2 \div 2) + (r3 \div 6) + (r4 \div 24) + (r5 \div 120) + (r6 \div 720)

\* e * 2^k, rounded once.
ShiftFix[e \in Int, k \in Int] ==
    IF k >= 0 THEN e * (2 ^ k) ELSE (e + (2 ^ ((-k) - 1))) \div (2 ^ (-k))

\* np.exp(x): x = k * ln(2) + r, exp(r) by the series, then one shift by 2^k.
ExpFix[x \in Int] ==
    ShiftFix[ExpSeries[x - ((x + (Ln2 \div 2)) \div Ln2) * Ln2], (x + (Ln2 \div 2)) \div Ln2]

\* b ** p for a positive float base: pow returns 1 for p = 0 and the base
\* itself for p = 1 exactly, and exp(p * ln(b)) otherwise.
PowFix[b \in Nat, p \in Int] ==
    IF p = 0 THEN Scale
    ELSE IF p = Scale THEN b
    ELSE ExpFix[MulFix[p, LnFix[b]]]

(***************************************************************************)
(* Age-indexed curves (lifecycle.py).                                      *)
(***************************************************************************)

\* The largest and the smallest element of a non-empty set of integers.
SetMax(S) == CHOOSE m \in S : \A y \in S : y <= m
SetMin(S) == CHOOSE m \in S : \A y \in S : m <= y

\* lower_age = max(a for a in ages if a <= age): the anchor at or below the
\* age.  LowerAnchorStrict is the faulty variant that takes the anchor
\* strictly below it.
LowerAnchorStrict(ages, age) == SetMax({a \in ages : a < age})

LowerAnchor(ages, age) == SetMax({a \in ages : a <= age})

\* (age - lower_age) / (upper_age - lower_age).
AgeFraction[age \in Int, lower_age \in Int, upper_age \in Int] ==
    DivFix[(age - lower_age) * Scale, (upper_age - lower_age) * Scale]

\* lower + frac * (upper - lower).
Lerp[lower \in Int, upper \in Int, frac \in Int] == lower + MulFix[frac, upper - lower]

\* US life table 2021: qx by age.
US_MORTALITY_RATES ==
    (0 :> 530) @@ (1 :> 38) @@ (5 :> 12) @@ (10 :> 10) @@ (15 :> 41) @@
    (20 :> 97) @@ (25 :> 121) @@ (30 :> 131) @@ (35 :> 153) @@ (40 :> 193) @@
    (45 :> 282) @@ (50 :> 421) @@ (55 :> 628) @@ (60 :> 931) @@ (65 :> 1348) @@
    (70 :> 2006) @@ (75 :> 3126) @@ (80 :> 5082) @@ (85 :> 8453) @@
    (90 :> 14022) @@ (95 :> 21890) @@ (100 :> 32000)

\* Yearly growth of mortality beyond the last table age (1.1).
MortalityGrowth == 110000

\* min(1.0, last_rate * 1.1 ** years): the rate `years` beyond the last table
\* age.  ExtrapolateMortalityShrinking is the faulty variant that divides by
\* the growth, ExtrapolateMortalityUncapped the one without the cap at 1.
ExtrapolateMortalityShrinking(last_rate, years) ==
    Min2[Scale, DivFix[last_rate, PowInt[MortalityGrowth, years]]]

ExtrapolateMortalityUncapped(last_rate, years) ==
    MulFix[last_rate, PowInt[MortalityGrowth, years]]

ExtrapolateMortality(last_rate, years) ==
    Min2[Scale, MulFix[last_rate, PowInt[MortalityGrowth, years]]]

interpolate_mortality(age) ==
    LET ages  == DOMAIN US_MORTALITY_RATES
        first == SetMin(ages)
        last  == SetMax(ages)
    IN  IF age <= first THEN US_MORTALITY_RATES[first]
        ELSE IF age >= last
        THEN ExtrapolateMortality(US_MORTALITY_RATES[last], age - last)
        ELSE LET lower_age  == LowerAnchor(ages, age)
                 upper_age  == SetMin({a \in ages : a > age})
                 lower_rate == US_MORTALITY_RATES[lower_age]
                 upper_rate == US_MORTALITY_RATES[upper_age]
             IN  IF lower_rate <= 0 \/ upper_rate <= 0
                 THEN (lower_rate + upper_rate) \div 2
                 ELSE \* exp(log_lower + frac * (log_upper - log_lower))
                      ExpFix[Lerp[LnFix[lower_rate], LnFix[upper_rate],
                                  AgeFraction[age, lower_age, upper_age]]]

\* The dense curve for the ages start_age .. max_age (empty when max_age < start_age).
\* get_mortality_curve_next_year is the faulty variant whose range starts a
\* year late.
get_mortality_curve_next_year(start_age, max_age) ==
    [t \in 1..((max_age - start_age) + 1) |-> interpolate_mortality(start_age + t)]

get_mortality_curve(start_age, max_age) ==
    [t \in 1..((max_age - start_age) + 1) |-> interpolate_mortality(start_age + (t - 1))]

\* Health-related quality of life by age.
AGE_QUALITY_WEIGHTS ==
    (20 :> 94000) @@ (25 :> 93000) @@ (30 :> 92000) @@ (35 :> 91000) @@
    (40 :> 89000) @@ (45 :> 87000) @@ (50 :> 85000) @@ (55 :> 83000) @@
    (60 :> 80000) @@ (65 :> 78000) @@ (70 :> 75000) @@ (75 :> 72000) @@
    (80 :> 68000) @@ (85 :> 62000) @@ (90 :> 55000) @@ (95 :> 48000) @@
    (100 :> 40000)

\* Floor (0.3) and yearly decay (0.02) of quality beyond the last table age.
QualityFloor == 30000
QualityDecay == 2000

\* max(0.3, last_weight - 0.02 * years): the weight `years` beyond the last
\* table age.  ExtrapolateQualityRising is the faulty variant that adds the
\* yearly decay.
ExtrapolateQualityRising(last_weight, years) ==
    Max2[QualityFloor, last_weight + QualityDecay * years]

ExtrapolateQuality(last_weight, years) ==
    Max2[QualityFloor, last_weight - QualityDecay * years]

get_quality_weight(age) ==
    LET ages  == DOMAIN AGE_QUALITY_WEIGHTS
        first == SetMin(ages)
        last  == SetMax(ages)
    IN  IF age <= first THEN AGE_QUALITY_WEIGHTS[first]
        ELSE IF age >= last
        THEN ExtrapolateQuality(AGE_QUALITY_WEIGHTS[last], age - last)
        ELSE LET lower_age == LowerAnchor(ages, age)
                 upper_age == SetMin({a \in ages : a > age})
             IN  Lerp[AGE_QUALITY_WEIGHTS[lower_age], AGE_QUALITY_WEIGHTS[upper_age],
                      AgeFraction[age, lower_age, upper_age]]

get_quality_curve(start_age, max_age) ==
    [t \in 1..((max_age - start_age) + 1) |-> get_quality_weight(start_age + (t - 1))]

(***************************************************************************)
(* Cause-of-death mix (lifecycle_pathways.py).                             *)
(***************************************************************************)

\* (cvd, cancer, other) shares by age.
CAUSE_FRACTIONS_BY_AGE ==
    (20 :> <<10000, 5000, 85000>>) @@ (30 :> <<12000, 10000, 78000>>) @@
    (40 :> <<20000, 25000, 55000>>) @@ (50 :> <<25000, 35000, 40000>>) @@
    (60 :> <<30000, 35000, 35000>>) @@ (70 :> <<35000, 30000, 35000>>) @@
    (80 :> <<40000, 20000, 40000>>) @@ (90 :> <<45000, 10000, 45000>>) @@
    (100 :> <<50000, 5000, 45000>>)

\* interpolate_cause_fractions_two is the faulty variant that interpolates
\* the first two shares only and takes the third from the lower anchor.
interpolate_cause_fractions_two(age) ==
    LET ages  == DOMAIN CAUSE_FRACTIONS_BY_AGE
        first == SetMin(ages)
        last  == SetMax(ages)
    IN  IF age <= first THEN CAUSE_FRACTIONS_BY_AGE[first]
        ELSE IF age >= last THEN CAUSE_FRACTIONS_BY_AGE[last]
        ELSE LET lower_age == LowerAnchor(ages, age)
                 upper_age == SetMin({a \in ages : a > age})
             IN  [i \in 1..3 |-> IF i = 3 THEN CAUSE_FRACTIONS_BY_AGE[lower_age][i]
                                 ELSE Lerp[CAUSE_FRACTIONS_BY_AGE[lower_age][i],
                                           CAUSE_FRACTIONS_BY_AGE[upper_age][i],
                                           AgeFraction[age, lower_age, upper_age]]]

interpolate_cause_fractions(age) ==
    LET ages  == DOMAIN CAUSE_FRACTIONS_BY_AGE
        first == SetMin(ages)
        last  == SetMax(ages)
    IN  IF age <= first THEN CAUSE_FRACTIONS_BY_AGE[first]
        ELSE IF age >= last THEN CAUSE_FRACTIONS_BY_AGE[last]
        ELSE LET lower_age == LowerAnchor(ages, age)
                 upper_age == SetMin({a \in ages : a > age})
             IN  [i \in 1..3 |-> Lerp[CAUSE_FRACTIONS_BY_AGE[lower_age][i],
                                      CAUSE_FRACTIONS_BY_AGE[upper_age][i],
                                      AgeFraction[age, lower_age, upper_age]]]

\* cvd_f * rr_cvd + cancer_f * rr_cancer + other_f * rr_other for shares f.
WeightedSum[f \in Seq(Int), rr_cvd \in Int, rr_cancer \in Int, rr_other \in Int] ==
    MulFix[f[1], rr_cvd] + MulFix[f[2], rr_cancer] + MulFix[f[3], rr_other]

\* get_weighted_rr_other_unweighted is the faulty variant that leaves the
\* share of the other causes out of the last term.
get_weighted_rr_other_unweighted(age, rr_cvd, rr_cancer, rr_other) ==
    WeightedSum[interpolate_cause_fractions(age), rr_cvd, rr_cancer, 0] + rr_other

get_weighted_rr(age, rr_cvd, rr_cancer, rr_other) ==
    WeightedSum[interpolate_cause_fractions(age), rr_cvd, rr_cancer, rr_other]

(***************************************************************************)
(* Array helpers (numpy).                                                  *)
(***************************************************************************)

\* np.sum of an array.
SumSeq[s \in Seq(Int)] == IF Len(s) = 0 THEN 0 ELSE s[1] + SumSeq[Tail(s)]

\* Element k of np.cumprod(1 - mortality), k >= 1.
CumProd[mortality \in Seq(Int), k \in Nat] ==
    IF k = 1 THEN Scale - mortality[1]
    ELSE MulFix[CumProd[mortality, k - 1], Scale - mortality[k]]

\* np.insert(np.cumprod(1 - mortality)[:-1], 0, 1.0): certain survival in
\* year 0, then the running product shifted by one year.
SurvivalCurve[mortality \in Seq(Int)] ==
    [t \in 1..Len(mortality) |-> IF t = 1 THEN Scale ELSE CumProd[mortality, t - 1]]

\* The array [1 / (1 + discount_rate) ** t for t in range(n_years)].
DiscountFactors[discount_rate \in Int, n_years \in Nat] ==
    [t \in 1..n_years |-> DivFix[Scale, PowInt[Scale + discount_rate, t - 1]]]

\* Elementwise product of two arrays of one length.
MulSeq[a \in Seq(Int), b \in Seq(Int)] == [t \in 1..Len(a) |-> MulFix[a[t], b[t]]]

\* An array times a scalar.
ScaleSeq[a \in Seq(Int), c \in Int] == [t \in 1..Len(a) |-> MulFix[a[t], c]]

\* Elementwise difference a - b.  SubSeq2Swapped is the faulty variant with
\* the two arms swapped.
SubSeq2Swapped(a, b) == [t \in 1..Len(a) |-> b[t] - a[t]]

SubSeq2(a, b) == [t \in 1..Len(a) |-> a[t] - b[t]]

(***************************************************************************)
(* Cost-effectiveness ratios.  A ratio is finite (val, in whole dollars),  *)
(* float('inf'), or what a float division by zero would give (nan).        *)
(***************************************************************************)
Finite(v) == [kind |-> "fin", val |-> v]
Infinity  == [kind |-> "inf", val |-> 0]
NaN       == [kind |-> "nan", val |-> 0]

\* total / gain as a float division would give it; gain = 0 gives inf or nan.
FloatRatio(total, gain) ==
    IF gain = 0 THEN (IF total = 0 THEN NaN ELSE Infinity)
    ELSE Finite(Sgn[total] * Sgn[gain] * ((Abs[total] + (Abs[gain] \div 2)) \div Abs[gain]))

\* total / gain if gain > 0 else float('inf').  CostRatioNonZeroGuard is the
\* faulty variant that guards on gain != 0.
CostRatioNonZeroGuard(total, gain) ==
    IF gain # 0 THEN FloatRatio(total, gain) ELSE Infinity

CostRatio(total, gain) ==
    IF gain > 0 THEN FloatRatio(total, gain) ELSE Infinity

(***************************************************************************)
(* LifecycleCEA.run (lifecycle.py).                                        *)
(***************************************************************************)

\* rr ** nut_adjustment, shrunk toward 1 by the confounding adjustment:
\* 1 - (1 - adjusted) * confounding_adjustment.
\* Faulty variants: the confounding factor applied to the ratio itself
\* (EffectiveRRScaled); the sign of the shrinkage reversed (EffectiveRRReversed).
EffectiveRRScaled(rr, nut_adjustment, confounding_adjustment) ==
    MulFix[PowFix[rr, nut_adjustment], confounding_adjustment]

EffectiveRRReversed(rr, nut_adjustment, confounding_adjustment) ==
    Scale + MulFix[Scale - PowFix[rr, nut_adjustment], confounding_adjustment]

EffectiveRR(rr, nut_adjustment, confounding_adjustment) ==
    Scale - MulFix[Scale - PowFix[rr, nut_adjustment], confounding_adjustment]

\* The sums and ratios of run, from the two survival curves.
LifecycleTotals[survival_baseline \in Seq(Int), survival_intervention \in Seq(Int), quality_weights \in Seq(Int), discount_factors \in Seq(Int), annual_cost \in Int] ==
    LET ly_baseline == SumSeq[survival_baseline]
        ly_intervention == SumSeq[survival_intervention]
        qalys_baseline == SumSeq[MulSeq[survival_baseline, quality_weights]]
        qalys_intervention == SumSeq[MulSeq[survival_intervention, quality_weights]]
        survival_gain == SubSeq2(survival_intervention, survival_baseline)
        ly_gained_disc == SumSeq[MulSeq[survival_gain, discount_factors]]
        qaly_gain_per_year == MulSeq[survival_gain, quality_weights]
        qalys_gained_disc == SumSeq[MulSeq[qaly_gain_per_year, discount_factors]]
        annual_costs == ScaleSeq[survival_intervention, annual_cost]
        total_cost_disc == SumSeq[MulSeq[annual_costs, discount_factors]]
    IN  [ life_years_baseline |-> ly_baseline,
          life_years_intervention |-> ly_intervention,
          life_years_gained |-> ly_intervention - ly_baseline,
          qalys_baseline |-> qalys_baseline,
          qalys_intervention |-> qalys_intervention,
          qalys_gained |-> qalys_intervention - qalys_baseline,
          life_years_gained_discounted |-> ly_gained_disc,
          qalys_gained_discounted |-> qalys_gained_disc,
          total_cost_discounted |-> total_cost_disc,
          cost_per_ly |-> CostRatio(total_cost_disc, ly_gained_disc),
          cost_per_qaly |-> CostRatio(total_cost_disc, qalys_gained_disc),
          survival_baseline |-> survival_baseline,
          survival_intervention |-> survival_intervention,
          annual_qalys_gained |-> qaly_gain_per_year ]

\* run, from the materialised curves and the effective hazard ratio.
LifecycleFromCurves[mortality_baseline \in Seq(Int), quality_weights \in Seq(Int), effective_hr \in Int, discount_rate \in Int, annual_cost \in Int] ==
    LifecycleTotals[SurvivalCurve[mortality_baseline],
                    SurvivalCurve[ScaleSeq[mortality_baseline, effective_hr]],
                    quality_weights,
                    DiscountFactors[discount_rate, Len(mortality_baseline)],
                    annual_cost]

\* Variant: run that leaves every year undiscounted.
LifecycleCEA_run_undiscounted(p) ==
    LifecycleFromCurves[get_mortality_curve(p.start_age, p.max_age),
                        get_quality_curve(p.start_age, p.max_age),
                        EffectiveRR(p.hazard_ratio, p.nut_adjustment, p.confounding_adjustment),
                        0,
                        p.annual_cost]

LifecycleCEA_run(p) ==
    LifecycleFromCurves[get_mortality_curve(p.start_age, p.max_age),
                        get_quality_curve(p.start_age, p.max_age),
                        EffectiveRR(p.hazard_ratio, p.nut_adjustment, p.confounding_adjustment),
                        p.discount_rate,
                        p.annual_cost]

(***************************************************************************)
(* PathwayLifecycleCEA.run (lifecycle_pathways.py).                        *)
(***************************************************************************)

\* The per-age mortality reductions share * (1 - rr) of the three causes,
\* for the effective relative risks rr = (cvd, cancer, other).
CauseReductions[f \in Seq(Int), rr \in Seq(Int)] ==
    [c \in 1..3 |-> MulFix[f[c], Scale - rr[c]]]

\* The three contribution weights of one age: the reductions normalised by
\* their total when the total is positive, zeros otherwise.
NormalizeReductions[red \in Seq(Int)] ==
    IF red[1] + red[2] + red[3] > 0
    THEN [c \in 1..3 |-> DivFix[red[c], red[1] + red[2] + red[3]]]
    ELSE [c \in 1..3 |-> 0]

CauseContrib(age, rr) ==
    NormalizeReductions[CauseReductions[interpolate_cause_fractions(age), rr]]

\* part / whole if whole > 0 else 0: a reported contribution fraction.
\* ContributionShareUnnormalised is the faulty variant without the division.
ContributionShareUnnormalised(part, whole) == IF whole > 0 THEN part ELSE 0

ContributionShare(part, whole) == IF whole > 0 THEN DivFix[part, whole] ELSE 0

\* The sums, the ratio and the contribution fractions of run.
PathwayTotals[ly_gained_by_age \in Seq(Int), survival_intervention \in Seq(Int), contrib \in Seq(Seq(Int)), quality_weights \in Seq(Int), discount_factors \in Seq(Int), annual_cost \in Int] ==
    LET n_years == Len(ly_gained_by_age)
        by_cause(c) == [t \in 1..n_years |-> MulFix[ly_gained_by_age[t], contrib[t][c]]]
        qaly_gain_by_age == MulSeq[ly_gained_by_age, quality_weights]
        ly_gained_disc == SumSeq[MulSeq[ly_gained_by_age, discount_factors]]
        qalys_gained_disc == SumSeq[MulSeq[qaly_gain_by_age, discount_factors]]
        annual_costs == ScaleSeq[survival_intervention, annual_cost]
        total_cost_disc == SumSeq[MulSeq[annual_costs, discount_factors]]
        ly_cause_disc(c) == SumSeq[MulSeq[by_cause(c), discount_factors]]
    IN  [ life_years_cvd |-> SumSeq[by_cause(1)],
          life_years_cancer |-> SumSeq[by_cause(2)],
          life_years_other |-> SumSeq[by_cause(3)],
          life_years_gained |-> SumSeq[ly_gained_by_age],
          qalys_gained |-> SumSeq[qaly_gain_by_age],
          life_years_gained_discounted |-> ly_gained_disc,
          qalys_gained_discounted |-> qalys_gained_disc,
          total_cost_discounted |-> total_cost_disc,
          cost_per_qaly |-> CostRatio(total_cost_disc, qalys_gained_disc),
          cvd_contribution |-> ContributionShare(ly_cause_disc(1), ly_gained_disc),
          cancer_contribution |-> ContributionShare(ly_cause_disc(2), ly_gained_disc),
          other_contribution |-> ContributionShare(ly_cause_disc(3), ly_gained_disc) ]

\* run, from the two survival curves.
PathwayFromSurvival[survival_baseline \in Seq(Int), survival_intervention \in Seq(Int), contrib \in Seq(Seq(Int)), quality_weights \in Seq(Int), discount_factors \in Seq(Int), annual_cost \in Int] ==
    PathwayTotals[SubSeq2(survival_intervention, survival_baseline), survival_intervention,
                  contrib, quality_weights, discount_factors, annual_cost]

\* run, from the materialised curves and the effective relative risks rr.
PathwayFromCurves[start_age \in Int, mortality_baseline \in Seq(Int), quality_weights \in Seq(Int), rr \in Seq(Int), discount_rate \in Int, annual_cost \in Int] ==
    PathwayFromSurvival[
        SurvivalCurve[mortality_baseline],
        SurvivalCurve[[t \in 1..Len(mortality_baseline) |->
            MulFix[mortality_baseline[t],
                   get_weighted_rr(start_age + (t - 1), rr[1], rr[2], rr[3])]]],
        [t \in 1..Len(mortality_baseline) |-> CauseContrib(start_age + (t - 1), rr)],
        quality_weights,
        DiscountFactors[discount_rate, Len(mortality_baseline)],
        annual_cost]

\* The effective relative risks (cvd, cancer, other) of a parameter object.
EffectiveRRs(p) ==
    << EffectiveRR(p.rr_cvd, p.nut_adjustment, p.confounding_adjustment),
       EffectiveRR(p.rr_cancer, p.nut_adjustment, p.confounding_adjustment),
       EffectiveRR(p.rr_other, p.nut_adjustment, p.confounding_adjustment) >>

PathwayLifecycleCEA_run(p) ==
    PathwayFromCurves[p.start_age,
                      get_mortality_curve(p.start_age, p.max_age),
                      get_quality_curve(p.start_age, p.max_age),
                      EffectiveRRs(p),
                      p.discount_rate,
                      p.annual_cost]

(***************************************************************************)
(* The random stream (numpy Generator).  A stream is a state of a small    *)
(* full-period congruential generator; every sampling call advances it and *)
(* derives its value from the word it lands on.                            *)
(***************************************************************************)
\* seed=None, encoded beside the non-negative integer seeds.
None == 0 - 1

\* The state after one more word of the stream.
Advance(s) == ((75 * s) + 74) % 65537

\* np.random.default_rng(seed) for an integer seed.
SeedState(seed) == Advance(Advance((seed * 257) % 65537))

\* The states default_rng(None) may start in (operating-system entropy).
EntropyStates == {SeedState(40000), SeedState(50000)}

\* default_rng(seed): the possible initial streams.
\* InitialStreamsUnseeded is the faulty variant that drops the seed argument.
InitialStreamsUnseeded(seed) == EntropyStates

InitialStreams(seed) == IF seed = None THEN EntropyStates ELSE {SeedState(seed)}

\* The state n words further on.
AdvanceBy[s \in Nat, n \in Nat] ==
    IF n = 0 THEN s
    ELSE IF n = 1 THEN Advance(s)
    ELSE AdvanceBy[AdvanceBy[s, n \div 2], n - (n \div 2)]

\* A standard normal deviate read off a word: one of -2, -1, 0, 1, 2.
StdNormal(word) == ((word \div 9) % 5) - 2

\* A uniform deviate in (0, 1) read off a word: 0.1, 0.2, ..., 0.9.
Uniform(word) == ((word % 9) + 1) * (Scale \div 10)

\* Generator.normal(loc, scale) raises ValueError for scale < 0.
NormalRaises(scale) == scale < 0

\* Generator.normal(loc, scale) on the word drawn.
Normal(loc, scale, word) == loc + scale * StdNormal(word)

\* Generator.beta(a, b) raises ValueError for a <= 0 or b <= 0.
BetaRaises(a, b) == a <= 0 \/ b <= 0

\* The beta deviate for the shape parameters a, b and uniform u.
BetaValue[a \in Int, b \in Int, u \in Int] == DivFix[MulFix[a, u], MulFix[a, u] + MulFix[b, Scale - u]]

\* Generator.beta(a, b) on the word drawn: a value in (0, 1) with the
\* weight a / (a + b) at the middle of the stream's range.
Beta(a, b, word) == BetaValue[a, b, Uniform(word)]

(***************************************************************************)
(* Summary statistics (numpy).                                             *)
(***************************************************************************)

\* s with x inserted before the first larger element (s ascending).
InsertSorted[s \in Seq(Int), x \in Int] ==
    IF Len(s) = 0 THEN <<x>>
    ELSE IF x < s[1] THEN <<x>> \o s
    ELSE <<s[1]>> \o InsertSorted[Tail(s), x]

\* np.sort of an array.
SortAscending[s \in Seq(Int)] ==
    IF Len(s) = 0 THEN <<>> ELSE InsertSorted[SortAscending[Tail(s)], s[1]]

\* Integer quotient rounded to the nearest, for a positive divisor.
RoundDiv[a \in Int, b \in Nat] == ((2 * a) + b) \div (2 * b)

\* A statistic is a float: finite (val) or nan, the statistic of an empty array.
NoStat == [kind |-> "nan", val |-> 0]

\* np.mean of an array.
Mean(s) == IF Len(s) = 0 THEN NoStat ELSE [kind |-> "fin", val |-> RoundDiv[SumSeq[s], Len(s)]]

\* The q-per-mille point of an ascending non-empty array, by linear
\* interpolation between the two nearest ranks (numpy's default method).
Quantile[sorted \in Seq(Int), q \in Nat] ==
    LET h  == (Len(sorted) - 1) * q
        lo == (h \div 1000) + 1
        hi == IF lo < Len(sorted) THEN lo + 1 ELSE lo
    IN  sorted[lo] + RoundDiv[(sorted[hi] - sorted[lo]) * (h % 1000), 1000]

\* np.percentile(s, q / 10).
Percentile(s, q) ==
    IF Len(s) = 0 THEN NoStat ELSE [kind |-> "fin", val |-> Quantile[SortAscending[s], q]]

\* np.median of an array.
Median(s) == Percentile(s, 500)

\* The floats a ratio may be.
Ratios == [kind : {"fin", "inf", "nan"}, val : Int]

\* icers[np.isfinite(icers)]: the finite entries of an array of ratios, in order.
FiniteOnly[icers \in Seq(Ratios)] ==
    IF Len(icers) = 0 THEN <<>>
    ELSE IF icers[1].kind = "fin" THEN <<icers[1].val>> \o FiniteOnly[Tail(icers)]
    ELSE FiniteOnly[Tail(icers)]

(***************************************************************************)
(* State.  One single-threaded caller owns a parameter object and up to    *)
(* two engine instances of one class, and calls their methods one at a     *)
(* time.                                                                   *)
(***************************************************************************)
VARIABLES
    numpy,      \* the numpy build: what np.percentile gives for an empty array
    kind,       \* the engine class in use: "lifecycle", "pathway" or "simulation"
    params,     \* the caller's parameter object, NoParams before it is built
    last_run,   \* what the last call of run(params) returned, NoResult before
    ctor,       \* the last SimulationParams(...) call: its arguments and outcome
    seed,       \* seed[e]: the seed engine e was constructed with (None: no seed)
    rng,        \* rng[e]: self.rng of engine e, the state of its stream
    pc,         \* pc[e]: "unbuilt", "idle", or the statement run_monte_carlo is at
    n_simulations, \* n_simulations[e]: the argument of the call in progress
    i,          \* i[e]: the loop index of the call in progress
    sampled,    \* sampled[e]: the values sampled so far in the current draw
    arrays,     \* arrays[e]: the result arrays filled so far
    out,        \* out[e]: what the last Monte Carlo call of e returned or raised
    log,        \* log[e]: the sampling calls made on self.rng during the last call
    calls,      \* calls[e]: the n_simulations of the Monte Carlo calls e completed
    sim_params, \* sim_params[e]: the parameter object of the current draw
    tables,     \* the module-level anchor tables the curve functions read
    query       \* the last call of a module-level function and its outcome

Engines == {1, 2}

NoParams == [none |-> TRUE]
NoResult == [none |-> TRUE]

\* LifecycleParams(...): a plain dataclass, no validation.
LifecycleParams(start_age, max_age, discount_rate, hazard_ratio, hazard_ratio_sd, confounding_adjustment, annual_cost, nut_adjustment, nut_adjustment_sd) ==
    [ start_age |-> start_age, max_age |-> max_age, discount_rate |-> discount_rate,
      hazard_ratio |-> hazard_ratio, hazard_ratio_sd |-> hazard_ratio_sd,
      confounding_adjustment |-> confounding_adjustment, annual_cost |-> annual_cost,
      nut_adjustment |-> nut_adjustment, nut_adjustment_sd |-> nut_adjustment_sd ]

\* PathwayParams(...): a plain dataclass, no validation.  rr is the triple
\* (rr_cvd, rr_cancer, rr_other), rr_sd the triple of their log-scale SDs.
PathwayParams(start_age, max_age, discount_rate, rr, rr_sd, confounding_alpha, confounding_beta, confounding_adjustment, annual_cost, nut_adjustment, nut_adjustment_sd) ==
    [ start_age |-> start_age, max_age |-> max_age, discount_rate |-> discount_rate,
      rr_cvd |-> rr[1], rr_cancer |-> rr[2], rr_other |-> rr[3],
      rr_cvd_sd |-> rr_sd[1], rr_cancer_sd |-> rr_sd[2], rr_other_sd |-> rr_sd[3],
      confounding_alpha |-> confounding_alpha, confounding_beta |-> confounding_beta,
      confounding_adjustment |-> confounding_adjustment, annual_cost |-> annual_cost,
      nut_adjustment |-> nut_adjustment, nut_adjustment_sd |-> nut_adjustment_sd ]

\* Dataclass defaults.
DefaultHazardRatioSd == 8000
DefaultNutAdjustmentSd == 10000
DefaultRRSd == <<3000, 4000, 3000>>
DefaultConfoundingAlpha == 150000
DefaultConfoundingBeta == 450000
DefaultAnnualCost == 250 * Scale

\* run(params) of the class in use.
RunOf(k, p) ==
    IF k = "lifecycle" THEN LifecycleCEA_run(p) ELSE PathwayLifecycleCEA_run(p)

(***************************************************************************)
(* SpecRun: the deterministic run() as a function of its parameters.       *)
(* The start ages are old enough for a yearly gain to be hundreds of       *)
(* times the fifth decimal.                                                *)
(***************************************************************************)
MaxYears == 3

RunStartAges == {88, 96, 109, 111}
RunDiscountRates == {0, 3000}
RunHazardRatios == {70000, 78000, 90000, 100000, 120000}
RunConfounding == {0, 25000, 80000, 100000}
RunNutAdjustments == {-50000, 0, 100000, 115000}
RunAnnualCosts == {0, DefaultAnnualCost}
RunRelativeRisks ==
    { <<75000, 87000, 90000>>, <<100000, 100000, 100000>>, <<120000, 120000, 120000>>,
      <<50000, 100000, 154000>>, <<60000, 110000, 95000>> }

\* Risks whose weighted sum crosses 1 between the ages 96 and 97: the cvd
\* share rises with age and the cancer share falls.
RunCrossingRisks == <<108000, 42000, 100000>>
RunCrossingStartAge == 96

RunLifecycleInputs ==
    { LifecycleParams(a, a + y, d, hr, DefaultHazardRatioSd, c, cost, adj, DefaultNutAdjustmentSd) :
        a \in RunStartAges, y \in 0..MaxYears, d \in RunDiscountRates,
        hr \in RunHazardRatios, c \in RunConfounding, cost \in RunAnnualCosts,
        adj \in RunNutAdjustments }

RunPathwayInputs ==
    { PathwayParams(a, a + y, d, rr, DefaultRRSd, DefaultConfoundingAlpha,
                    DefaultConfoundingBeta, c, DefaultAnnualCost, adj, DefaultNutAdjustmentSd) :
        a \in RunStartAges, y \in 0..MaxYears, d \in RunDiscountRates,
        rr \in RunRelativeRisks, c \in RunConfounding,
        adj \in RunNutAdjustments \ {-50000} }
    \cup
    { PathwayParams(RunCrossingStartAge, RunCrossingStartAge + y, d, RunCrossingRisks, DefaultRRSd,
                    DefaultConfoundingAlpha, DefaultConfoundingBeta, c, DefaultAnnualCost,
                    Scale, DefaultNutAdjustmentSd) :
        y \in 0..MaxYears, d \in RunDiscountRates, c \in RunConfounding }

(***************************************************************************)
(* The module-level anchor tables and the record of a call of a            *)
(* module-level function.                                                  *)
(***************************************************************************)

\* The three anchor tables as the modules define them.
ShippedTables ==
    [ mortality |-> US_MORTALITY_RATES,
      quality   |-> AGE_QUALITY_WEIGHTS,
      cause     |-> CAUSE_FRACTIONS_BY_AGE ]

\* A table with no anchors: the dict {}.
EmptyTable == <<>>

\* ages = sorted(TABLE.keys()); if age <= ages[0]: ...  The first statement
\* of each curve function indexes the sorted anchor ages, which raises
\* IndexError for a table without anchors.
FirstAnchorRaises(table) == DOMAIN table = {}

\* What a call of a module-level function left behind: the function, its
\* argument, the exception it raised ("no": none), the value it returned
\* and the calls it made on the way, in order.
Outcome(fn, arg, raised, result, steps) ==
    [fn |-> fn, arg |-> arg, raised |-> raised, result |-> result, steps |-> steps]

NoQuery == [none |-> TRUE]

vars == <<numpy, kind, params, last_run, ctor, seed, rng, pc, n_simulations, i, sampled, arrays, out, log, calls, sim_params, tables, query>>

\* The Monte Carlo state of the engines.
mc_vars == <<seed, rng, pc, n_simulations, i, sampled, arrays, out, log, calls, sim_params>>

NoSample == [hr |-> 0, rr_cvd |-> 0, rr_cancer |-> 0, rr_other |-> 0, conf |-> 0, adj |-> 0]
NoArrays == [qalys |-> <<>>, costs |-> <<>>, icers |-> <<>>,
             cvd_contributions |-> <<>>, cancer_contributions |-> <<>>]

\* Engine e after Engine(seed) for a seed of the set given, in stream state s.
Constructed(e, sd, s) ==
    /\ seed = [x \in Engines |-> IF x = e THEN sd ELSE None]
    /\ rng = [x \in Engines |-> IF x = e THEN s ELSE 0]
    /\ pc = [x \in Engines |-> IF x = e THEN "idle" ELSE "unbuilt"]
    /\ n_simulations = [x \in Engines |-> 0]
    /\ i = [x \in Engines |-> 0]
    /\ sampled = [x \in Engines |-> NoSample]
    /\ arrays = [x \in Engines |-> NoArrays]
    /\ out = [x \in Engines |-> NoResult]
    /\ log = [x \in Engines |-> <<>>]
    /\ calls = [x \in Engines |-> <<>>]
    /\ sim_params = [x \in Engines |-> NoParams]

InitRun ==
    /\ numpy = "nan"
    /\ kind \in {"lifecycle", "pathway"}
    /\ params \in (IF kind = "lifecycle" THEN RunLifecycleInputs ELSE RunPathwayInputs)
    /\ last_run = NoResult
    /\ ctor = NoParams
    /\ Constructed(1, 0, SeedState(0))
    /\ tables = ShippedTables
    /\ query = NoQuery

\* Variant: a run that takes a sample from self.rng on its way.
CallRunAdvancingStream(e) ==
    /\ kind \in {"lifecycle", "pathway"}
    /\ params # NoParams
    /\ \A x \in Engines : pc[x] \in {"unbuilt", "idle"}
    /\ pc[e] = "idle"
    /\ last_run' = RunOf(kind, params)
    /\ rng' = [rng EXCEPT ![e] = Advance(@)]
    /\ UNCHANGED <<tables, query, numpy, kind, params, ctor, seed, pc, n_simulations, i, sampled, arrays, out, log, calls, sim_params>>

\* model.run(params): reads the parameters and the tables, writes nothing.
CallRun(e) ==
    /\ kind \in {"lifecycle", "pathway"}
    /\ params # NoParams
    /\ \A x \in Engines : pc[x] \in {"unbuilt", "idle"}
    /\ pc[e] = "idle"
    /\ last_run' = RunOf(kind, params)
    /\ UNCHANGED <<tables, query, numpy, kind, params, ctor, mc_vars>>

NextRun == CallRun(1)

SpecRun == InitRun /\ [][NextRun]_vars

Ran == last_run # NoResult
NYears == (params.max_age - params.start_age) + 1

(***************************************************************************)
(* Spec: the Monte Carlo engines.  The caller builds one parameter object  *)
(* and the engines, then calls run and run_monte_carlo, one call at a      *)
(* time.  run_monte_carlo is followed statement by statement so that the   *)
(* use of self.rng can be observed.                                        *)
(***************************************************************************)
MaxSims == 2
MaxCalls == 2

EngineSeeds == {None, 0}

\* The Monte Carlo calls the caller has made so far, on all engines.
CallsMade == Len(calls[1]) + Len(calls[2])

\* No call is in progress on any engine.
NoCallInProgress == \A x \in Engines : pc[x] \in {"unbuilt", "idle"}

\* The statement after the sampling call `label`, for the order of calls given.
After(order, label) ==
    LET k == CHOOSE j \in 1..Len(order) : order[j] = label
    IN  IF k = Len(order) THEN "run" ELSE order[k + 1]

\* One sampling call on self.rng: the stream moves on by a word.
Consume(e, label) ==
    /\ rng' = [rng EXCEPT ![e] = Advance(@)]
    /\ log' = [log EXCEPT ![e] = Append(@, [draw |-> i[e], label |-> label, word |-> Advance(rng[e])])]

\* The call in progress ends: its frame is gone, `result` is what the
\* caller gets (a dict, or the exception raised).
EndCall(e, result) ==
    /\ pc' = [pc EXCEPT ![e] = "idle"]
    /\ out' = [out EXCEPT ![e] = result]
    /\ calls' = [calls EXCEPT ![e] = Append(@, n_simulations[e])]
    /\ n_simulations' = [n_simulations EXCEPT ![e] = 0]
    /\ i' = [i EXCEPT ![e] = 0]
    /\ sampled' = [sampled EXCEPT ![e] = NoSample]
    /\ arrays' = [arrays EXCEPT ![e] = NoArrays]
    /\ sim_params' = [sim_params EXCEPT ![e] = NoParams]

Raised(exception) == [raised |-> exception]

\* A sampling call raises before it reads the stream.
Raise(e, exception) ==
    /\ EndCall(e, Raised(exception))
    /\ UNCHANGED <<rng, log>>

\* Engine(seed): self.rng = np.random.default_rng(seed).  The engines are
\* numbered in the order the caller builds them.
NewEngine(e, sd) ==
    /\ pc[e] = "unbuilt"
    /\ \A x \in Engines : x < e => pc[x] # "unbuilt"
    /\ NoCallInProgress
    /\ \E s \in InitialStreams(sd) : rng' = [rng EXCEPT ![e] = s]
    /\ seed' = [seed EXCEPT ![e] = sd]
    /\ pc' = [pc EXCEPT ![e] = "idle"]
    /\ UNCHANGED <<tables, query, numpy, kind, params, last_run, ctor, n_simulations, i, sampled, arrays, out, log, calls, sim_params>>

\* The order of the sampling calls in one draw of LifecycleCEA.run_monte_carlo.
\* LifecycleSamplingOrderConfFirst is the variant with confounding sampled
\* before the nut adjustment.
LifecycleSamplingOrderConfFirst == <<"hr", "conf", "adj">>

LifecycleSamplingOrder == <<"hr", "adj", "conf">>

\* The order of the sampling calls in one draw of PathwayLifecycleCEA.run_monte_carlo.
\* PathwaySamplingOrderAdjFirst is the variant with the nut adjustment sampled
\* before confounding.
PathwaySamplingOrderAdjFirst == <<"rr_cvd", "rr_cancer", "rr_other", "adj", "conf">>

PathwaySamplingOrder == <<"rr_cvd", "rr_cancer", "rr_other", "conf", "adj">>

SamplingOrder(k) == IF k = "lifecycle" THEN LifecycleSamplingOrder ELSE PathwaySamplingOrder

\* Variant: a run_monte_carlo that starts from a fresh stream of the
\* constructor's seed.
StartMonteCarloReseeding(e, n) ==
    /\ kind \in {"lifecycle", "pathway"}
    /\ params # NoParams
    /\ NoCallInProgress
    /\ pc[e] = "idle"
    /\ CallsMade < MaxCalls
    /\ n_simulations' = [n_simulations EXCEPT ![e] = n]
    /\ i' = [i EXCEPT ![e] = 0]
    /\ arrays' = [arrays EXCEPT ![e] = NoArrays]
    /\ sampled' = [sampled EXCEPT ![e] = NoSample]
    /\ log' = [log EXCEPT ![e] = <<>>]
    /\ pc' = [pc EXCEPT ![e] = SamplingOrder(kind)[1]]
    /\ rng' = [rng EXCEPT ![e] = IF seed[e] = None THEN @ ELSE SeedState(seed[e])]
    /\ UNCHANGED <<tables, query, numpy, kind, params, last_run, ctor, seed, out, calls, sim_params>>

\* engine.run_monte_carlo(params, n): the arrays are allocated and the loop entered.
StartMonteCarlo(e, n) ==
    /\ kind \in {"lifecycle", "pathway"}
    /\ params # NoParams
    /\ NoCallInProgress
    /\ pc[e] = "idle"
    /\ CallsMade < MaxCalls
    /\ n_simulations' = [n_simulations EXCEPT ![e] = n]
    /\ i' = [i EXCEPT ![e] = 0]
    /\ arrays' = [arrays EXCEPT ![e] = NoArrays]
    /\ sampled' = [sampled EXCEPT ![e] = NoSample]
    /\ log' = [log EXCEPT ![e] = <<>>]
    /\ pc' = [pc EXCEPT ![e] = SamplingOrder(kind)[1]]
    /\ UNCHANGED <<tables, query, numpy, kind, params, last_run, ctor, seed, rng, out, calls, sim_params>>

\* sampled_hr = np.exp(self.rng.normal(np.log(params.hazard_ratio), params.hazard_ratio_sd))
LifecycleSampleHazardRatio(e) ==
    /\ kind = "lifecycle" /\ pc[e] = "hr"
    /\ IF NormalRaises(params.hazard_ratio_sd) THEN Raise(e, "ValueError")
       ELSE /\ Consume(e, "hr")
            /\ sampled' = [sampled EXCEPT ![e].hr =
                   ExpFix[Normal(LnFix[params.hazard_ratio], params.hazard_ratio_sd, Advance(rng[e]))]]
            /\ pc' = [pc EXCEPT ![e] = After(LifecycleSamplingOrder, "hr")]
            /\ UNCHANGED <<n_simulations, i, arrays, out, calls, sim_params>>
    /\ UNCHANGED <<tables, query, numpy, kind, params, last_run, ctor, seed>>

\* sampled_adj = self.rng.normal(params.nut_adjustment, params.nut_adjustment_sd)
LifecycleSampleNutAdjustment(e) ==
    /\ kind = "lifecycle" /\ pc[e] = "adj"
    /\ IF NormalRaises(params.nut_adjustment_sd) THEN Raise(e, "ValueError")
       ELSE /\ Consume(e, "adj")
            /\ sampled' = [sampled EXCEPT ![e].adj =
                   Normal(params.nut_adjustment, params.nut_adjustment_sd, Advance(rng[e]))]
            /\ pc' = [pc EXCEPT ![e] = After(LifecycleSamplingOrder, "adj")]
            /\ UNCHANGED <<n_simulations, i, arrays, out, calls, sim_params>>
    /\ UNCHANGED <<tables, query, numpy, kind, params, last_run, ctor, seed>>

\* conf_alpha = params.confounding_adjustment * 10
\* conf_beta = (1 - params.confounding_adjustment) * 10
\* sampled_conf = self.rng.beta(conf_alpha, conf_beta)
LifecycleSampleConfounding(e) ==
    /\ kind = "lifecycle" /\ pc[e] = "conf"
    /\ LET conf_alpha == params.confounding_adjustment * 10
           conf_beta  == (Scale - params.confounding_adjustment) * 10
       IN  IF BetaRaises(conf_alpha, conf_beta) THEN Raise(e, "ValueError")
           ELSE /\ Consume(e, "conf")
                /\ sampled' = [sampled EXCEPT ![e].conf = Beta(conf_alpha, conf_beta, Advance(rng[e]))]
                /\ pc' = [pc EXCEPT ![e] = After(LifecycleSamplingOrder, "conf")]
                /\ UNCHANGED <<n_simulations, i, arrays, out, calls, sim_params>>
    /\ UNCHANGED <<tables, query, numpy, kind, params, last_run, ctor, seed>>

\* The loop goes round, or is left for the summary statistics.
LoopStep(e) ==
    /\ i' = [i EXCEPT ![e] = @ + 1]
    /\ pc' = [pc EXCEPT ![e] = IF i[e] + 1 < n_simulations[e] THEN SamplingOrder(kind)[1] ELSE "stats"]

\* sim_params = LifecycleParams(start_age=params.start_age, ...,
\* nut_adjustment=sampled_adj) for the caller's object p and the sampled
\* values s: seven keywords are passed, hazard_ratio_sd and
\* nut_adjustment_sd are not and take the dataclass's defaults.
LifecycleSimParams(p, s) ==
    LifecycleParams(p.start_age, p.max_age, p.discount_rate, s.hr, DefaultHazardRatioSd,
                    s.conf, p.annual_cost, s.adj, DefaultNutAdjustmentSd)

\* sim_params = LifecycleParams(...); result = self.run(sim_params);
\* qalys[i], costs[i], icers[i] = ...
LifecycleRunDraw(e) ==
    /\ kind = "lifecycle" /\ pc[e] = "run"
    /\ \E sp \in { LifecycleSimParams(params, sampled[e]) } :
        /\ sim_params' = [sim_params EXCEPT ![e] = sp]
        /\ \E result \in { LifecycleCEA_run(sp) } :
              arrays' = [arrays EXCEPT ![e] =
                  [@ EXCEPT !.qalys = Append(@, result.qalys_gained_discounted),
                            !.costs = Append(@, result.total_cost_discounted),
                            !.icers = Append(@, result.cost_per_qaly)]]
    /\ LoopStep(e)
    /\ UNCHANGED <<tables, query, numpy, kind, params, last_run, ctor, seed, rng, n_simulations, sampled, out, log, calls>>

\* The dict LifecycleCEA.run_monte_carlo returns for its arrays; finite_icers
\* is icers[np.isfinite(icers)].
LifecycleSummary(a, finite_icers) ==
    [ qalys |-> a.qalys, costs |-> a.costs, icers |-> a.icers,
      qaly_mean |-> Mean(a.qalys),
      qaly_median |-> Median(a.qalys),
      qaly_ci_95 |-> <<Percentile(a.qalys, 25), Percentile(a.qalys, 975)>>,
      icer_mean |-> Mean(finite_icers),
      icer_median |-> Median(finite_icers),
      icer_ci_95 |-> <<Percentile(finite_icers, 25), Percentile(finite_icers, 975)>> ]

\* return {...}.  np.percentile of an empty array is nan in some numpy
\* releases and an IndexError in others; only LifecycleCEA takes percentiles
\* of the finite icers.
LifecycleFinish(e) ==
    /\ kind = "lifecycle" /\ pc[e] = "stats"
    /\ \E finite_icers \in { FiniteOnly[arrays[e].icers] } :
          IF Len(finite_icers) = 0 /\ numpy = "IndexError"
          THEN EndCall(e, Raised("IndexError"))
          ELSE EndCall(e, LifecycleSummary(arrays[e], finite_icers))
    /\ UNCHANGED <<tables, query, numpy, kind, params, last_run, ctor, seed, rng, log>>

\* rr_<cause> = np.exp(self.rng.normal(np.log(params.rr_<cause>), params.rr_<cause>_sd)),
\* for the cause whose statement the call is at.
PathwaySampleRelativeRisk(e) ==
    /\ kind = "pathway" /\ pc[e] \in {"rr_cvd", "rr_cancer", "rr_other"}
    /\ LET rr == CASE pc[e] = "rr_cvd" -> params.rr_cvd
                   [] pc[e] = "rr_cancer" -> params.rr_cancer
                   [] OTHER -> params.rr_other
           sd == CASE pc[e] = "rr_cvd" -> params.rr_cvd_sd
                   [] pc[e] = "rr_cancer" -> params.rr_cancer_sd
                   [] OTHER -> params.rr_other_sd
       IN  IF NormalRaises(sd) THEN Raise(e, "ValueError")
           ELSE /\ Consume(e, pc[e])
                /\ \E v \in { ExpFix[Normal(LnFix[rr], sd, Advance(rng[e]))] } :
                      sampled' = [sampled EXCEPT ![e] =
                          CASE pc[e] = "rr_cvd" -> [@ EXCEPT !.rr_cvd = v]
                            [] pc[e] = "rr_cancer" -> [@ EXCEPT !.rr_cancer = v]
                            [] OTHER -> [@ EXCEPT !.rr_other = v]]
                /\ pc' = [pc EXCEPT ![e] = After(PathwaySamplingOrder, pc[e])]
                /\ UNCHANGED <<n_simulations, i, arrays, out, calls, sim_params>>
    /\ UNCHANGED <<tables, query, numpy, kind, params, last_run, ctor, seed>>

\* Variant: confounding sampled around params.confounding_adjustment, as
\* LifecycleCEA does.
PathwaySampleConfoundingAroundAdjustment(e) ==
    /\ kind = "pathway" /\ pc[e] = "conf"
    /\ LET conf_alpha == params.confounding_adjustment * 10
           conf_beta  == (Scale - params.confounding_adjustment) * 10
       IN  IF BetaRaises(conf_alpha, conf_beta) THEN Raise(e, "ValueError")
           ELSE /\ Consume(e, "conf")
                /\ sampled' = [sampled EXCEPT ![e].conf = Beta(conf_alpha, conf_beta, Advance(rng[e]))]
                /\ pc' = [pc EXCEPT ![e] = After(PathwaySamplingOrder, "conf")]
                /\ UNCHANGED <<n_simulations, i, arrays, out, calls, sim_params>>
    /\ UNCHANGED <<tables, query, numpy, kind, params, last_run, ctor, seed>>

\* sampled_conf = self.rng.beta(params.confounding_alpha, params.confounding_beta)
PathwaySampleConfounding(e) ==
    /\ kind = "pathway" /\ pc[e] = "conf"
    /\ IF BetaRaises(params.confounding_alpha, params.confounding_beta) THEN Raise(e, "ValueError")
       ELSE /\ Consume(e, "conf")
            /\ sampled' = [sampled EXCEPT ![e].conf =
                   Beta(params.confounding_alpha, params.confounding_beta, Advance(rng[e]))]
            /\ pc' = [pc EXCEPT ![e] = After(PathwaySamplingOrder, "conf")]
            /\ UNCHANGED <<n_simulations, i, arrays, out, calls, sim_params>>
    /\ UNCHANGED <<tables, query, numpy, kind, params, last_run, ctor, seed>>

\* sampled_adj = self.rng.normal(params.nut_adjustment, params.nut_adjustment_sd)
PathwaySampleNutAdjustment(e) ==
    /\ kind = "pathway" /\ pc[e] = "adj"
    /\ IF NormalRaises(params.nut_adjustment_sd) THEN Raise(e, "ValueError")
       ELSE /\ Consume(e, "adj")
            /\ sampled' = [sampled EXCEPT ![e].adj =
                   Normal(params.nut_adjustment, params.nut_adjustment_sd, Advance(rng[e]))]
            /\ pc' = [pc EXCEPT ![e] = After(PathwaySamplingOrder, "adj")]
            /\ UNCHANGED <<n_simulations, i, arrays, out, calls, sim_params>>
    /\ UNCHANGED <<tables, query, numpy, kind, params, last_run, ctor, seed>>

\* sim_params = PathwayParams(start_age=params.start_age, ...,
\* nut_adjustment=sampled_adj) for the caller's object p and the sampled
\* values s: nine keywords are passed; the rr_*_sd fields,
\* confounding_alpha, confounding_beta and nut_adjustment_sd are not and take
\* the dataclass's defaults.
PathwaySimParams(p, s) ==
    PathwayParams(p.start_age, p.max_age, p.discount_rate,
                  <<s.rr_cvd, s.rr_cancer, s.rr_other>>,
                  DefaultRRSd, DefaultConfoundingAlpha, DefaultConfoundingBeta,
                  s.conf, p.annual_cost, s.adj, DefaultNutAdjustmentSd)

\* sim_params = PathwayParams(...); result = self.run(sim_params);
\* qalys[i], icers[i], cvd_contribs[i], cancer_contribs[i] = ...
PathwayRunDraw(e) ==
    /\ kind = "pathway" /\ pc[e] = "run"
    /\ \E sp \in { PathwaySimParams(params, sampled[e]) } :
        /\ sim_params' = [sim_params EXCEPT ![e] = sp]
        /\ \E result \in { PathwayLifecycleCEA_run(sp) } :
              arrays' = [arrays EXCEPT ![e] =
                  [@ EXCEPT !.qalys = Append(@, result.qalys_gained_discounted),
                            !.icers = Append(@, result.cost_per_qaly),
                            !.cvd_contributions = Append(@, result.cvd_contribution),
                            !.cancer_contributions = Append(@, result.cancer_contribution)]]
    /\ LoopStep(e)
    /\ UNCHANGED <<tables, query, numpy, kind, params, last_run, ctor, seed, rng, n_simulations, sampled, out, log, calls>>

\* The dict PathwayLifecycleCEA.run_monte_carlo returns for its arrays.
PathwaySummary(a, finite_icers) ==
    [ qalys |-> a.qalys, icers |-> a.icers,
      cvd_contributions |-> a.cvd_contributions,
      cancer_contributions |-> a.cancer_contributions,
      qaly_mean |-> Mean(a.qalys),
      qaly_median |-> Median(a.qalys),
      qaly_ci_95 |-> <<Percentile(a.qalys, 25), Percentile(a.qalys, 975)>>,
      icer_median |-> Median(finite_icers),
      cvd_contribution_mean |-> Mean(a.cvd_contributions),
      cancer_contribution_mean |-> Mean(a.cancer_contributions) ]

\* return {...}
PathwayFinish(e) ==
    /\ kind = "pathway" /\ pc[e] = "stats"
    /\ \E finite_icers \in { FiniteOnly[arrays[e].icers] } :
          EndCall(e, PathwaySummary(arrays[e], finite_icers))
    /\ UNCHANGED <<tables, query, numpy, kind, params, last_run, ctor, seed, rng, log>>

\* The parameter objects the caller may build.
MCLifecycleInputs ==
    { LifecycleParams(96, 97, 3000, hr, DefaultHazardRatioSd, c, DefaultAnnualCost,
                      Scale, DefaultNutAdjustmentSd) :
        hr \in {78000, 120000}, c \in {0, 80000} }
    \cup { LifecycleParams(96, 97, 3000, Scale, 5000, 80000, 300 * Scale, Scale, 5000) }

MCPathwayInputs ==
    { PathwayParams(96, 97, 3000, <<75000, 87000, 90000>>, DefaultRRSd, alpha,
                    DefaultConfoundingBeta, c, DefaultAnnualCost, Scale, sd) :
        alpha \in {0, DefaultConfoundingAlpha}, c \in {25000},
        sd \in {0 - 10000, DefaultNutAdjustmentSd} }
    \cup { PathwayParams(96, 97, 3000, <<75000, 87000, 90000>>, <<2000, 2000, 2000>>,
                         2 * Scale, 4 * Scale, 30000, 300 * Scale, Scale, 5000) }

\* params = LifecycleParams(...): a dataclass without validation.
MakeLifecycleParams ==
    /\ kind = "lifecycle" /\ params = NoParams
    /\ params' \in MCLifecycleInputs
    /\ UNCHANGED <<tables, query, numpy, kind, last_run, ctor, mc_vars>>

\* params = PathwayParams(...): a dataclass without validation.
MakePathwayParams ==
    /\ kind = "pathway" /\ params = NoParams
    /\ params' \in MCPathwayInputs
    /\ UNCHANGED <<tables, query, numpy, kind, last_run, ctor, mc_vars>>

(***************************************************************************)
(* MonteCarloSimulation (simulation.py, nuts.py).                          *)
(***************************************************************************)

\* The nuts, in the order of the list, each with its adjustment factor.
NUTS ==
    << [id |-> "walnut", mean |-> 115000, sd |-> 8000],
       [id |-> "almond", mean |-> 100000, sd |-> 6000],
       [id |-> "pistachio", mean |-> 108000, sd |-> 10000],
       [id |-> "macadamia", mean |-> 102000, sd |-> 15000],
       [id |-> "peanut", mean |-> 95000, sd |-> 7000],
       [id |-> "pecan", mean |-> 98000, sd |-> 18000],
       [id |-> "cashew", mean |-> 92000, sd |-> 14000] >>

\* __post_init__ lets the arguments through.
\* SimulationParamsValidAgeBelow120 is the faulty variant that tests the upper
\* age limit with >= instead of >.
SimulationParamsValidAgeBelow120(age, base_hr_mean, n) ==
    ~(age < 0 \/ age >= 120) /\ ~(base_hr_mean >= Scale) /\ ~(n < 1)

SimulationParamsValid(age, base_hr_mean, n) ==
    ~(age < 0 \/ age > 120) /\ ~(base_hr_mean >= Scale) /\ ~(n < 1)

\* The dataclass fields, the ones not passed at their defaults.
SimulationParams(age, base_hr_mean, confounding_adjustment, n, sd) ==
    [ age |-> age, base_hr_mean |-> base_hr_mean, base_hr_sd |-> 8000,
      life_expectancy |-> 40 * Scale,
      quality_weight_alpha |-> 17 * Scale, quality_weight_beta |-> 3 * Scale,
      confounding_adjustment |-> confounding_adjustment,
      n_simulations |-> n, seed |-> sd ]

\* np.clip(x, lo, hi)
Clip[x \in Int, lo \in Int, hi \in Int] == Max2[lo, Min2[x, hi]]

\* ylg = base_ylg * (nut_hazard_reduction / base_hazard_reduction), with
\* nut_hazard_reduction = 1 - np.clip(adj_hr, 0.01, 0.99) and
\* base_hazard_reduction = 1 - 0.78.
YearsGained[base_ylg \in Int, adj_hr \in Int] ==
    MulFix[base_ylg, DivFix[Scale - Clip[adj_hr, 1000, 99000], Scale - 78000]]

\* total_qalys = ylg * quality * conf_adj + life_exp * qol_effect * quality * conf_adj
TotalQalys[ylg \in Int, life_exp \in Int, qol_effect \in Int, quality \in Int, conf_adj \in Int] ==
    MulFix[MulFix[ylg, quality], conf_adj]
        + MulFix[MulFix[MulFix[life_exp, qol_effect], quality], conf_adj]

\* The first sampling call of _simulate_nut that raises for the parameters
\* p, counting from 1, or 0 if none does: lognormal (1) for a negative
\* sigma, beta (4, 7) for a shape parameter that is not positive.
RaisingCall(p) ==
    IF NormalRaises(p.base_hr_sd) THEN 1
    ELSE IF BetaRaises(p.quality_weight_alpha, p.quality_weight_beta) THEN 4
    ELSE IF BetaRaises(p.confounding_adjustment * 10, (Scale - p.confounding_adjustment) * 10) THEN 7
    ELSE 0

\* Element j of the array total_qalys of _simulate_nut for a nut, from the
\* stream state s: the k-th of the seven array draws reads the words
\* (k - 1) * n + 1 .. k * n after s.
simulate_nut_at(nut, p, s, j) ==
    LET n == p.n_simulations
        word(k) == AdvanceBy[s, ((k - 1) * n) + j]
    IN  TotalQalys[
            YearsGained[Normal(320000, 80000, word(5)),
                        PowFix[ExpFix[Normal(LnFix[p.base_hr_mean], p.base_hr_sd, word(1))],
                               Normal(nut.mean, nut.sd, word(2))]],
            Max2[Normal(p.life_expectancy, 3 * Scale, word(3)), Scale],
            Normal(2000, 1000, word(6)),
            Beta(p.quality_weight_alpha, p.quality_weight_beta, word(4)),
            Beta(p.confounding_adjustment * 10, (Scale - p.confounding_adjustment) * 10, word(7))]

simulate_nut(nut, p, s) == [j \in 1..p.n_simulations |-> simulate_nut_at(nut, p, s, j)]

\* The integer square root.
Isqrt[x \in Nat] ==
    IF x < 2 THEN x
    ELSE LET r == 2 * Isqrt[x \div 4]
         IN  IF (r + 1) * (r + 1) <= x THEN r + 1 ELSE r

\* np.std of an array with mean m, to three decimals.
StdDev[samples \in Seq(Int), m \in Int] ==
    100 * Isqrt[SumSeq[[j \in 1..Len(samples) |->
                        ((samples[j] - m) \div 100) * ((samples[j] - m) \div 100)]] \div Len(samples)]

\* np.mean(samples > threshold)
ShareAbove[samples \in Seq(Int), threshold \in Int] ==
    DivFix[Cardinality({j \in 1..Len(samples) : samples[j] > threshold}) * Scale, Len(samples) * Scale]

\* NutResult(nut_id, samples) with the statistics __post_init__ fills in.
NutResult[nut_id \in STRING, samples \in Seq(Int)] ==
    IF Len(samples) = 0
    THEN [ nut_id |-> nut_id, samples |-> samples, median |-> 0, mean |-> 0, sd |-> 0,
           ci_95 |-> <<0, 0>>, ci_80 |-> <<0, 0>>, p_positive |-> 0, p_gt_1_year |-> 0 ]
    ELSE [ nut_id |-> nut_id, samples |-> samples,
           median |-> Median(samples).val,
           mean |-> Mean(samples).val,
           sd |-> StdDev[samples, Mean(samples).val],
           ci_95 |-> <<Percentile(samples, 25).val, Percentile(samples, 975).val>>,
           ci_80 |-> <<Percentile(samples, 100).val, Percentile(samples, 900).val>>,
           p_positive |-> ShareAbove[samples, 0],
           p_gt_1_year |-> ShareAbove[samples, Scale] ]

\* r inserted into a list sorted by median descending, after the entries
\* whose median is not smaller (list.sort is stable).
\* InsertByMedianAscending is the faulty variant without reverse=True.
InsertByMedianAscending(sorted, r) ==
    LET k == Cardinality({j \in 1..Len(sorted) : sorted[j].median <= r.median})
    IN  SubSeq(sorted, 1, k) \o <<r>> \o SubSeq(sorted, k + 1, Len(sorted))

InsertByMedian(sorted, r) ==
    LET k == Cardinality({j \in 1..Len(sorted) : sorted[j].median >= r.median})
    IN  SubSeq(sorted, 1, k) \o <<r>> \o SubSeq(sorted, k + 1, Len(sorted))

\* results.sort(key=lambda r: r.median, reverse=True), for the first k results.
SortByMedian(results, k) ==
    LET sorted[m \in 0..k] == IF m = 0 THEN <<>> ELSE InsertByMedian(sorted[m - 1], results[m])
    IN  sorted[k]

\* Variant: a run that always continues the instance's stream.
RunStreamContinuing(p, s) == s

\* The stream run samples from: reseeded when params carries a seed.
RunStream(p, s) == IF p.seed # None THEN SeedState(p.seed) ELSE s

\* The SimulationResult of run, sampling from the stream state s: nut k
\* starts 7 * n words after nut k - 1.
SimulationResult(p, s) ==
    LET results == [k \in 1..Len(NUTS) |->
                      NutResult[NUTS[k].id,
                                simulate_nut(NUTS[k], p, AdvanceBy[s, 7 * p.n_simulations * (k - 1)])]]
        almond == CHOOSE k \in 1..Len(NUTS) : NUTS[k].id = "almond"
    IN  [ params |-> p,
          results |-> SortByMedian(results, Len(NUTS)),
          category_effect |-> [ median |-> results[almond].median, ci_95 |-> results[almond].ci_95 ] ]

\* params = SimulationParams(...): __post_init__ raises ValueError or lets
\* the object through as given.
MakeSimulationParams(age, base_hr_mean, confounding_adjustment, n, sd) ==
    /\ kind = "simulation" /\ params = NoParams
    /\ IF SimulationParamsValid(age, base_hr_mean, n)
       THEN /\ params' = SimulationParams(age, base_hr_mean, confounding_adjustment, n, sd)
            /\ ctor' = [age |-> age, base_hr_mean |-> base_hr_mean, n_simulations |-> n,
                        raised |-> "no"]
       ELSE /\ params' = params
            /\ ctor' = [age |-> age, base_hr_mean |-> base_hr_mean, n_simulations |-> n,
                        raised |-> "ValueError"]
    /\ UNCHANGED <<tables, query, numpy, kind, last_run, mc_vars>>

\* sim.run(params): the whole call.  A sampling call that raises ends it
\* with the stream where the calls before it left it.
SimRun(e) ==
    /\ kind = "simulation" /\ params # NoParams
    /\ NoCallInProgress
    /\ pc[e] = "idle"
    /\ CallsMade < MaxCalls
    /\ \E s \in { RunStream(params, rng[e]) } :
          IF RaisingCall(params) # 0
          THEN /\ rng' = [rng EXCEPT ![e] = AdvanceBy[s, (RaisingCall(params) - 1) * params.n_simulations]]
               /\ out' = [out EXCEPT ![e] = Raised("ValueError")]
          ELSE /\ rng' = [rng EXCEPT ![e] = AdvanceBy[s, 7 * params.n_simulations * Len(NUTS)]]
               /\ out' = [out EXCEPT ![e] = SimulationResult(params, s)]
    /\ calls' = [calls EXCEPT ![e] = Append(@, params.n_simulations)]
    /\ UNCHANGED <<tables, query, numpy, kind, params, last_run, ctor, seed, pc, n_simulations, i, sampled, arrays, log, sim_params>>

SimAges == {0 - 1, 0, 40, 120, 121}
SimHazardRatios == {78000, 99999, Scale}
SimConfounding == {80000, Scale}

Init ==
    /\ kind \in {"lifecycle", "pathway", "simulation"}
    /\ numpy \in (IF kind = "lifecycle" THEN {"nan", "IndexError"} ELSE {"nan"})
    /\ params = NoParams
    /\ last_run = NoResult
    /\ ctor = NoParams
    /\ seed = [x \in Engines |-> None]
    /\ rng = [x \in Engines |-> 0]
    /\ pc = [x \in Engines |-> "unbuilt"]
    /\ n_simulations = [x \in Engines |-> 0]
    /\ i = [x \in Engines |-> 0]
    /\ sampled = [x \in Engines |-> NoSample]
    /\ arrays = [x \in Engines |-> NoArrays]
    /\ out = [x \in Engines |-> NoResult]
    /\ log = [x \in Engines |-> <<>>]
    /\ calls = [x \in Engines |-> <<>>]
    /\ sim_params = [x \in Engines |-> NoParams]
    /\ tables = ShippedTables
    /\ query = NoQuery

Next ==
    \/ MakeLifecycleParams
    \/ MakePathwayParams
    \/ \E age \in SimAges, hr \in SimHazardRatios, c \in SimConfounding,
          n \in 0..MaxSims, sd \in EngineSeeds : MakeSimulationParams(age, hr, c, n, sd)
    \/ \E e \in Engines : SimRun(e)
    \/ \E e \in Engines, sd \in EngineSeeds : NewEngine(e, sd)
    \/ \E e \in Engines, n \in 1..MaxSims : StartMonteCarlo(e, n)
    \/ \E e \in Engines : LifecycleSampleHazardRatio(e)
    \/ \E e \in Engines : LifecycleSampleNutAdjustment(e)
    \/ \E e \in Engines : LifecycleSampleConfounding(e)
    \/ \E e \in Engines : LifecycleRunDraw(e)
    \/ \E e \in Engines : LifecycleFinish(e)
    \/ \E e \in Engines : PathwaySampleRelativeRisk(e)
    \/ \E e \in Engines : PathwaySampleConfounding(e)
    \/ \E e \in Engines : PathwaySampleNutAdjustment(e)
    \/ \E e \in Engines : PathwayRunDraw(e)
    \/ \E e \in Engines : PathwayFinish(e)
    \/ \E e \in Engines : CallRun(e)

Spec == Init /\ [][Next]_vars

(***************************************************************************)
(* SpecTables: the module-level functions.  They are pure (they read the   *)
(* tables and write nothing), so a behaviour follows one call of one of    *)
(* them, for every argument of the sets below.  The tables are the ones    *)
(* the modules define, or the same with one table left without anchors.    *)
(***************************************************************************)
MaxQueryAge == 120
MaxSpan == 2

QueryAges == (0 - 1)..MaxQueryAge
CurveStartAges == 0..MaxQueryAge

TableBuilds ==
    {ShippedTables} \cup
    { [ShippedTables EXCEPT ![t] = EmptyTable] : t \in {"mortality", "quality", "cause"} }

\* max_age of LifecycleParams when the keyword is not passed.
DefaultMaxAge == 110

\* Annual cost (dollars) of 28 g a day, by nut.
NUT_COSTS ==
    ("peanut" :> [nut_id |-> "peanut", annual_cost_28g |-> 10125000]) @@
    ("almond" :> [nut_id |-> "almond", annual_cost_28g |-> 24750000]) @@
    ("walnut" :> [nut_id |-> "walnut", annual_cost_28g |-> 27000000]) @@
    ("cashew" :> [nut_id |-> "cashew", annual_cost_28g |-> 29250000]) @@
    ("pistachio" :> [nut_id |-> "pistachio", annual_cost_28g |-> 31500000]) @@
    ("pecan" :> [nut_id |-> "pecan", annual_cost_28g |-> 36000000]) @@
    ("macadamia" :> [nut_id |-> "macadamia", annual_cost_28g |-> 63000000])

\* get_nut_cost(nut_id): ValueError for an id that is not a key of NUT_COSTS.
\* get_nut_cost_first is the faulty variant that falls back to the first
\* record for an unknown id.
get_nut_cost_first(nut_id) ==
    IF nut_id \notin DOMAIN NUT_COSTS
    THEN Outcome("get_nut_cost", nut_id, "no", NUT_COSTS["peanut"], <<>>)
    ELSE Outcome("get_nut_cost", nut_id, "no", NUT_COSTS[nut_id], <<>>)

get_nut_cost(nut_id) ==
    IF nut_id \notin DOMAIN NUT_COSTS
    THEN Outcome("get_nut_cost", nut_id, "ValueError", NoResult, <<>>)
    ELSE Outcome("get_nut_cost", nut_id, "no", NUT_COSTS[nut_id], <<>>)

\* get_nut(nut_id): the entry of NUTS with that id.
get_nut(nut_id) == NUTS[CHOOSE k \in 1..Len(NUTS) : NUTS[k].id = nut_id]

\* run_nut_cea(nut_id, start_age, hazard_ratio, confounding_adjustment,
\* discount_rate) with the nut's own adjustment factor: the cost lookup comes
\* first, and its exception leaves the function.
run_nut_cea(nut_id, start_age, hazard_ratio, confounding_adjustment, discount_rate) ==
    LET cost_data == get_nut_cost(nut_id)
    IN  IF cost_data.raised # "no"
        THEN Outcome("run_nut_cea", nut_id, cost_data.raised, NoResult, <<"get_nut_cost">>)
        ELSE Outcome("run_nut_cea", nut_id, "no",
                     LifecycleCEA_run(LifecycleParams(start_age, DefaultMaxAge, discount_rate,
                         hazard_ratio, DefaultHazardRatioSd, confounding_adjustment,
                         cost_data.result.annual_cost_28g, get_nut(nut_id).mean,
                         get_nut(nut_id).sd)),
                     <<"get_nut_cost", "get_nut", "LifecycleParams", "LifecycleCEA", "run">>)

\* Triples (rr_cvd, rr_cancer, rr_other): protective, null, harmful, mixed,
\* and equal throughout.
QueryRelativeRisks ==
    RunRelativeRisks \cup
    { <<87000, 87000, 87000>>, <<77777, 77777, 77777>>, <<90000, 75000, 87000>>,
      <<33333, 66667, 99999>> }

NutIds == DOMAIN NUT_COSTS \cup {"invalid_nut", "brazil"}
NutCeaStartAges == {108, 110}

InitTables ==
    /\ tables \in TableBuilds
    /\ query = NoQuery
    /\ numpy = "nan"
    /\ kind = "lifecycle"
    /\ params = NoParams
    /\ last_run = NoResult
    /\ ctor = NoParams
    /\ seed = [x \in Engines |-> None]
    /\ rng = [x \in Engines |-> 0]
    /\ pc = [x \in Engines |-> "unbuilt"]
    /\ n_simulations = [x \in Engines |-> 0]
    /\ i = [x \in Engines |-> 0]
    /\ sampled = [x \in Engines |-> NoSample]
    /\ arrays = [x \in Engines |-> NoArrays]
    /\ out = [x \in Engines |-> NoResult]
    /\ log = [x \in Engines |-> <<>>]
    /\ calls = [x \in Engines |-> <<>>]
    /\ sim_params = [x \in Engines |-> NoParams]

\* interpolate_mortality(age)
CallInterpolateMortality(age) ==
    /\ query = NoQuery
    /\ query' = IF FirstAnchorRaises(tables.mortality)
                THEN Outcome("interpolate_mortality", age, "IndexError", 0, <<>>)
                ELSE Outcome("interpolate_mortality", age, "no", interpolate_mortality(age), <<>>)
    /\ UNCHANGED <<tables, numpy, kind, params, last_run, ctor, mc_vars>>

\* get_quality_weight(age)
CallGetQualityWeight(age) ==
    /\ query = NoQuery
    /\ query' = IF FirstAnchorRaises(tables.quality)
                THEN Outcome("get_quality_weight", age, "IndexError", 0, <<>>)
                ELSE Outcome("get_quality_weight", age, "no", get_quality_weight(age), <<>>)
    /\ UNCHANGED <<tables, numpy, kind, params, last_run, ctor, mc_vars>>

\* interpolate_cause_fractions(age)
CallInterpolateCauseFractions(age) ==
    /\ query = NoQuery
    /\ query' = IF FirstAnchorRaises(tables.cause)
                THEN Outcome("interpolate_cause_fractions", age, "IndexError", <<>>, <<>>)
                ELSE Outcome("interpolate_cause_fractions", age, "no",
                             interpolate_cause_fractions(age), <<>>)
    /\ UNCHANGED <<tables, numpy, kind, params, last_run, ctor, mc_vars>>

\* get_weighted_rr(age, rr_cvd, rr_cancer, rr_other), rr the triple of risks.
CallGetWeightedRR(age, rr) ==
    /\ query = NoQuery
    /\ query' = IF FirstAnchorRaises(tables.cause)
                THEN Outcome("get_weighted_rr", <<age, rr>>, "IndexError", 0, <<>>)
                ELSE Outcome("get_weighted_rr", <<age, rr>>, "no",
                             get_weighted_rr(age, rr[1], rr[2], rr[3]),
                             <<"interpolate_cause_fractions">>)
    /\ UNCHANGED <<tables, numpy, kind, params, last_run, ctor, mc_vars>>

\* get_mortality_curve(start_age, max_age): interpolate_mortality for each
\* age of range(start_age, max_age + 1).
CallGetMortalityCurve(start_age, max_age) ==
    /\ query = NoQuery
    /\ query' = IF FirstAnchorRaises(tables.mortality)
                THEN Outcome("get_mortality_curve", <<start_age, max_age>>, "IndexError", <<>>, <<>>)
                ELSE Outcome("get_mortality_curve", <<start_age, max_age>>, "no",
                             get_mortality_curve(start_age, max_age), <<>>)
    /\ UNCHANGED <<tables, numpy, kind, params, last_run, ctor, mc_vars>>

\* get_quality_curve(start_age, max_age)
CallGetQualityCurve(start_age, max_age) ==
    /\ query = NoQuery
    /\ query' = IF FirstAnchorRaises(tables.quality)
                THEN Outcome("get_quality_curve", <<start_age, max_age>>, "IndexError", <<>>, <<>>)
                ELSE Outcome("get_quality_curve", <<start_age, max_age>>, "no",
                             get_quality_curve(start_age, max_age), <<>>)
    /\ UNCHANGED <<tables, numpy, kind, params, last_run, ctor, mc_vars>>

\* get_nut_cost(nut_id)
CallGetNutCost(nut_id) ==
    /\ query = NoQuery
    /\ query' = get_nut_cost(nut_id)
    /\ UNCHANGED <<tables, numpy, kind, params, last_run, ctor, mc_vars>>

\* run_nut_cea(nut_id, start_age=start_age): the other keywords at their
\* defaults.  model.run reads the mortality and quality tables.
CallRunNutCea(nut_id, start_age) ==
    /\ query = NoQuery
    /\ tables = ShippedTables
    /\ query' = run_nut_cea(nut_id, start_age, 78000, 80000, 3000)
    /\ UNCHANGED <<tables, numpy, kind, params, last_run, ctor, mc_vars>>

NextTables ==
    \/ \E age \in QueryAges : CallInterpolateMortality(age)
    \/ \E age \in QueryAges : CallGetQualityWeight(age)
    \/ \E age \in QueryAges : CallInterpolateCauseFractions(age)
    \/ \E age \in QueryAges, rr \in QueryRelativeRisks : CallGetWeightedRR(age, rr)
    \/ \E start_age \in CurveStartAges, span \in 0..MaxSpan :
          CallGetMortalityCurve(start_age, start_age + span)
    \/ \E start_age \in CurveStartAges, span \in 0..MaxSpan :
          CallGetQualityCurve(start_age, start_age + span)
    \/ \E nut_id \in NutIds : CallGetNutCost(nut_id)
    \/ \E nut_id \in NutIds, start_age \in NutCeaStartAges : CallRunNutCea(nut_id, start_age)

SpecTables == InitTables /\ [][NextTables]_vars

\* A call of the function named has returned or raised.
Asked(fn) == query # NoQuery /\ query.fn = fn
Returned(fn) == Asked(fn) /\ query.raised = "no"

(***************************************************************************)
(* C1.  cost_per_qaly is total_cost_discounted / qalys_gained_discounted   *)
(* when the discounted QALY gain is strictly positive and +infinity        *)
(* otherwise; cost_per_ly follows the same rule on the discounted          *)
(* life-year gain (LifecycleCEA); a zero or negative gain never gives a    *)
(* negative or NaN ratio.                                                  *)
(***************************************************************************)
RatioRule(ratio, total, gain) ==
    /\ gain > 0 => ratio = FloatRatio(total, gain)
    /\ gain <= 0 => /\ ratio = Infinity
                    /\ ratio.kind # "nan"
                    /\ ~(ratio.kind = "fin" /\ ratio.val < 0)

C1_CostRatioRule ==
    Ran =>
      /\ RatioRule(last_run.cost_per_qaly, last_run.total_cost_discounted,
                   last_run.qalys_gained_discounted)
      /\ kind = "lifecycle" =>
            RatioRule(last_run.cost_per_ly, last_run.total_cost_discounted,
                      last_run.life_years_gained_discounted)

C1_Witness ==
    /\ Ran
    /\ last_run.qalys_gained_discounted < 0
    /\ last_run.cost_per_qaly = Infinity


(***************************************************************************)
(* C6.  Original claim: for every PathwayParams the three contribution     *)
(* fractions returned by PathwayLifecycleCEA.run sum to 1.0 within 1e-2.   *)
(***************************************************************************)
ContributionSum == last_run.cvd_contribution + last_run.cancer_contribution + last_run.other_contribution

ReductionPositiveAtEveryAge ==
    \A t \in 0..(NYears - 1) :
        SumSeq[CauseReductions[interpolate_cause_fractions(params.start_age + t),
                               EffectiveRRs(params)]] > 0

C7_CauseTotalsSumToTotal ==
    (Ran /\ kind = "pathway") =>
        Abs[(last_run.life_years_cvd + last_run.life_years_cancer + last_run.life_years_other)
            - last_run.life_years_gained] <= Scale \div 1000

(***************************************************************************)
(* C8.  With hazard_ratio = 1 (LifecycleCEA) or all three relative risks   *)
(* = 1 (PathwayLifecycleCEA), life-years gained and QALYs gained,          *)
(* undiscounted and discounted, are below 1e-3 in absolute value.          *)
(***************************************************************************)
NullEffect ==
    IF kind = "lifecycle" THEN params.hazard_ratio = Scale
    ELSE params.rr_cvd = Scale /\ params.rr_cancer = Scale /\ params.rr_other = Scale

C8_NullEffectNoGain ==
    (Ran /\ NullEffect) =>
        /\ Abs[last_run.life_years_gained] < Scale \div 1000
        /\ Abs[last_run.qalys_gained] < Scale \div 1000
        /\ Abs[last_run.life_years_gained_discounted] < Scale \div 1000
        /\ Abs[last_run.qalys_gained_discounted] < Scale \div 1000

C8_Witness ==
    /\ Ran /\ NullEffect
    /\ params.confounding_adjustment \notin {0, Scale}
    /\ params.nut_adjustment \notin {0, Scale}
    /\ params.discount_rate > 0
    /\ NYears > 2
    /\ last_run.qalys_gained_discounted = 0

(***************************************************************************)
(* C9.  With discount_rate = 0 the discounted QALY and life-year gains     *)
(* equal the undiscounted ones within 1% (relative).                       *)
(***************************************************************************)
WithinOnePercent(x, y) == 100 * Abs[x - y] <= Abs[y]

C9_NoDiscounting ==
    (Ran /\ params.discount_rate = 0) =>
        /\ WithinOnePercent(last_run.qalys_gained_discounted, last_run.qalys_gained)
        /\ WithinOnePercent(last_run.life_years_gained_discounted, last_run.life_years_gained)

C9_Witness ==
    /\ Ran /\ kind = "lifecycle"
    /\ params.discount_rate = 0
    /\ NYears > 2
    /\ last_run.qalys_gained > 0
    /\ WithinOnePercent(last_run.qalys_gained_discounted, last_run.qalys_gained)

(***************************************************************************)
(* C10.  Original claim: of two LifecycleParams that differ only in        *)
(* hazard_ratio, the one with the lower hazard_ratio gets strictly greater *)
(* life_years_gained from LifecycleCEA.run.                                *)
(***************************************************************************)
\* life_years_gained of the caller's parameters with hazard_ratio replaced.
GainWithHazardRatio(hr) ==
    LifecycleCEA_run([params EXCEPT !.hazard_ratio = hr]).life_years_gained

LowerHazardRatioGainsMore ==
    \A hr \in RunHazardRatios :
        hr < params.hazard_ratio => GainWithHazardRatio(hr) > last_run.life_years_gained

C10_Original_StrictlyMonotone ==
    (Ran /\ kind = "lifecycle") => LowerHazardRatioGainsMore

(***************************************************************************)
(* C10 (amended).  Of two LifecycleParams that differ only in hazard_ratio *)
(* and have both hazard ratios in (0, 1], confounding_adjustment in        *)
(* (0, 1], nut_adjustment > 0 and max_age > start_age, the one with the    *)
(* lower hazard_ratio gets strictly greater life_years_gained.             *)
(***************************************************************************)
C10_Amended_StrictlyMonotone ==
    ( /\ Ran /\ kind = "lifecycle"
      /\ params.hazard_ratio <= Scale
      /\ params.confounding_adjustment > 0 /\ params.confounding_adjustment <= Scale
      /\ params.nut_adjustment > 0
      /\ params.max_age > params.start_age ) => LowerHazardRatioGainsMore

C10_Witness ==
    /\ Ran /\ kind = "lifecycle"
    /\ params.hazard_ratio = Scale
    /\ params.confounding_adjustment = 25000
    /\ params.nut_adjustment = 115000
    /\ NYears = 2
    /\ GainWithHazardRatio(90000) > 0
    /\ last_run.life_years_gained = 0


(***************************************************************************)
(* C2.  Two independently constructed engines given the same seed, the     *)
(* same parameters and the same n_simulations return identical sample      *)
(* arrays and identical summary statistics (LifecycleCEA,                  *)
(* PathwayLifecycleCEA and MonteCarloSimulation), and leave their streams  *)
(* in the same state.                                                      *)
(***************************************************************************)
SameSeedSameCalls ==
    /\ NoCallInProgress
    /\ pc[1] = "idle" /\ pc[2] = "idle"
    /\ seed[1] # None /\ seed[1] = seed[2]
    /\ calls[1] # <<>> /\ calls[1] = calls[2]

C2_Reproducible == SameSeedSameCalls => (out[1] = out[2] /\ rng[1] = rng[2])

C2_Witness ==
    /\ SameSeedSameCalls
    /\ calls[1] = <<MaxSims>>
    /\ out[1] = out[2]
    /\ "qalys" \in DOMAIN out[1]
    /\ Len(out[1].qalys) = MaxSims
    /\ out[1].qalys[1] # out[1].qalys[2]

(***************************************************************************)
(* C3.  Original claim: in every draw of run_monte_carlo, in both          *)
(* classes, the stream is consumed in the order hazard ratio / relative    *)
(* risks, then confounding, then nut adjustment, and draw i consumes the   *)
(* stream entirely before draw i+1 starts.                                 *)
(***************************************************************************)
\* The sampling calls logged for engine e are, draw after draw, the calls
\* of `order`, each reading the word after the one before.
LogFollows(e, order) ==
    \A k \in 1..Len(log[e]) :
        /\ log[e][k].label = order[((k - 1) % Len(order)) + 1]
        /\ log[e][k].draw = (k - 1) \div Len(order)
        /\ k > 1 => log[e][k].word = Advance(log[e][k - 1].word)

C3_Original_ConfoundingBeforeAdjustment ==
    \A e \in Engines :
        /\ kind = "lifecycle" => LogFollows(e, <<"hr", "conf", "adj">>)
        /\ kind = "pathway" => LogFollows(e, <<"rr_cvd", "rr_cancer", "rr_other", "conf", "adj">>)

(***************************************************************************)
(* C3 (amended).  In every draw of run_monte_carlo the stream is consumed  *)
(* in a fixed order: in LifecycleCEA the hazard ratio, then the nut        *)
(* adjustment, then confounding; in PathwayLifecycleCEA the three relative *)
(* risks (cvd, cancer, other), then confounding, then the nut adjustment;  *)
(* and draw i consumes the stream entirely before draw i+1 starts.         *)
(***************************************************************************)
C3_Amended_SamplingOrder ==
    \A e \in Engines :
        /\ kind = "lifecycle" => LogFollows(e, <<"hr", "adj", "conf">>)
        /\ kind = "pathway" => LogFollows(e, <<"rr_cvd", "rr_cancer", "rr_other", "conf", "adj">>)

C3_Witness ==
    /\ kind = "lifecycle"
    /\ Len(log[1]) = 6
    /\ log[1][2].label = "adj" /\ log[1][3].label = "conf"
    /\ log[1][6].draw = 1
    /\ pc[1] = "run"

(***************************************************************************)
(* C4.  For every LifecycleParams or PathwayParams object whose            *)
(* construction succeeded and every n_simulations >= 1, no sampling call   *)
(* of run_monte_carlo raises: no call ends in a ValueError.                *)
(***************************************************************************)
C4_NoRaiseInLoop ==
    \A e \in Engines : kind \in {"lifecycle", "pathway"} => out[e] # Raised("ValueError")

(***************************************************************************)
(* C5.  SimulationParams(...) raises ValueError exactly when age is        *)
(* outside [0, 120], n_simulations < 1 or base_hr_mean >= 1, before any    *)
(* sampling; an object that is built carries the values as given.          *)
(***************************************************************************)
C5_ValidatedAtConstruction ==
    (kind = "simulation" /\ ctor # NoParams) =>
      /\ ctor.raised = "ValueError" <=>
            \/ ctor.age < 0 \/ ctor.age > 120
            \/ ctor.n_simulations < 1
            \/ ctor.base_hr_mean >= Scale
      /\ ctor.raised = "ValueError" =>
            /\ params = NoParams
            /\ \A e \in Engines : calls[e] = <<>> /\ out[e] = NoResult
      /\ ctor.raised # "ValueError" =>
            /\ params # NoParams
            /\ params.age = ctor.age
            /\ params.base_hr_mean = ctor.base_hr_mean
            /\ params.n_simulations = ctor.n_simulations

C5_Witness ==
    /\ kind = "simulation" /\ ctor # NoParams
    /\ ctor.age = 120 /\ ctor.base_hr_mean = 99999 /\ ctor.n_simulations = 1
    /\ ctor.raised = "no"
    /\ params.age = 120

(***************************************************************************)
(* C11.  For every integer age (below the first anchor 20, at an anchor,   *)
(* between two anchors, above the last anchor 100),                        *)
(* interpolate_cause_fractions(age) returns three shares, each in [0, 1],  *)
(* that sum to 1 as returned: the function does not renormalise.           *)
(***************************************************************************)
C11_CauseFractionsSumToOne ==
    Returned("interpolate_cause_fractions") =>
        /\ Len(query.result) = 3
        /\ \A k \in 1..3 : query.result[k] >= 0 /\ query.result[k] <= Scale
        /\ SumSeq[query.result] = Scale

\* A call between two anchors, where the three shares are interpolated.
C11_Witness ==
    /\ Returned("interpolate_cause_fractions")
    /\ query.arg = 47
    /\ query.result # CAUSE_FRACTIONS_BY_AGE[40]
    /\ query.result # CAUSE_FRACTIONS_BY_AGE[50]

(***************************************************************************)
(* C12.  Original claim: for all ages in [0, 120] the materialized         *)
(* mortality curve is non-decreasing: get_mortality_curve gives            *)
(* mortality(a + 1) >= mortality(a).                                       *)
(***************************************************************************)
NonDecreasing(curve) == \A k \in 1..(Len(curve) - 1) : curve[k + 1] >= curve[k]

C12_Original_MortalityNonDecreasing ==
    Returned("get_mortality_curve") => NonDecreasing(query.result)

(***************************************************************************)
(* C12 (amended).  For all ages from 10 (the anchor with the lowest rate   *)
(* of the life table) to 120 the materialized mortality curve is           *)
(* non-decreasing: get_mortality_curve gives mortality(a + 1) >=           *)
(* mortality(a) for a >= 10.  Below age 10 the life table itself falls     *)
(* with age, and so does the curve.                                        *)
(***************************************************************************)
LowestRateAge == CHOOSE a \in DOMAIN US_MORTALITY_RATES :
    \A b \in DOMAIN US_MORTALITY_RATES : US_MORTALITY_RATES[a] <= US_MORTALITY_RATES[b]

C12_Amended_MortalityNonDecreasingFromTen ==
    (Returned("get_mortality_curve") /\ query.arg[1] >= LowestRateAge) =>
        NonDecreasing(query.result)

\* A curve across the last table age, rising through interpolation and
\* through extrapolation.
C12_Witness ==
    /\ Returned("get_mortality_curve")
    /\ query.arg = <<99, 101>>
    /\ query.result[1] < query.result[2]
    /\ query.result[2] < query.result[3]

(***************************************************************************)
(* C13.  The materialized quality curve is non-increasing for all ages in  *)
(* [0, 120]: get_quality_curve gives quality(a + 1) <= quality(a),         *)
(* through the clamp below age 20 and the floored decay above age 100.     *)
(***************************************************************************)
NonIncreasing(curve) == \A k \in 1..(Len(curve) - 1) : curve[k + 1] <= curve[k]

C13_QualityNonIncreasing ==
    Returned("get_quality_curve") => NonIncreasing(query.result)

\* A curve across the last table age: interpolated, then decaying.
C13_Witness ==
    /\ Returned("get_quality_curve")
    /\ query.arg = <<99, 101>>
    /\ query.result[1] > query.result[2]
    /\ query.result[2] > query.result[3]

(***************************************************************************)
(* C14.  For every integer age in [0, 120], interpolate_mortality(age) is  *)
(* in [0, 1] and get_quality_weight(age) is in [0, 1].  Above age 100      *)
(* mortality grows by the factor 1.1 a year and is capped at 1.0, quality  *)
(* falls by 0.02 a year and is floored at 0.3; at or below its first       *)
(* anchor each curve returns the first anchor's value.  The yearly growth  *)
(* is compared within one unit of the fixed point.                         *)
(***************************************************************************)
FirstAge(table) == SetMin(DOMAIN table)
LastAge(table) == SetMax(DOMAIN table)

GrowsCapped(curve) ==
    \A k \in 1..(Len(curve) - 1) :
        \E grown \in { MulFix[curve[k], MortalityGrowth] } :
            IF grown > Scale THEN curve[k + 1] = Scale
            ELSE Abs[curve[k + 1] - grown] <= 1

DecaysFloored(curve) ==
    \A k \in 1..(Len(curve) - 1) :
        curve[k + 1] = (IF curve[k] - QualityDecay < QualityFloor THEN QualityFloor
                        ELSE curve[k] - QualityDecay)

C14_CurvesWithinUnitInterval ==
    /\ Returned("interpolate_mortality") =>
          /\ query.result >= 0 /\ query.result <= Scale
          /\ query.arg <= FirstAge(US_MORTALITY_RATES) =>
                query.result = US_MORTALITY_RATES[FirstAge(US_MORTALITY_RATES)]
    /\ Returned("get_quality_weight") =>
          /\ query.result >= 0 /\ query.result <= Scale
          /\ query.arg <= FirstAge(AGE_QUALITY_WEIGHTS) =>
                query.result = AGE_QUALITY_WEIGHTS[FirstAge(AGE_QUALITY_WEIGHTS)]
          /\ query.arg >= LastAge(AGE_QUALITY_WEIGHTS) => query.result >= QualityFloor
    /\ (Returned("get_mortality_curve") /\ query.arg[1] >= LastAge(US_MORTALITY_RATES)) =>
          GrowsCapped(query.result)
    /\ (Returned("get_quality_curve") /\ query.arg[1] >= LastAge(AGE_QUALITY_WEIGHTS)) =>
          DecaysFloored(query.result)

\* An age at which the uncapped growth has passed 1 and the cap acts.
C14_Witness ==
    /\ Returned("interpolate_mortality")
    /\ query.arg = 115
    /\ query.result = Scale
    /\ MulFix[US_MORTALITY_RATES[LastAge(US_MORTALITY_RATES)], PowInt[MortalityGrowth, 15]] > Scale

(***************************************************************************)
(* C15.  Original claim: for every anchor age of the life table,           *)
(* interpolate_mortality(anchor) returns exactly the table value,          *)
(* including interior anchors, which go through the log-space branch with  *)
(* fraction 0; likewise get_quality_weight at the quality anchors.         *)
(***************************************************************************)
AtAnchor(fn, table) == Returned(fn) /\ query.arg \in DOMAIN table

MadeAllDraws(e) ==
    /\ kind \in {"lifecycle", "pathway"}
    /\ pc[e] = "idle"
    /\ calls[e] # <<>>
    /\ out[e] # Raised("ValueError")

LastN(e) == calls[e][Len(calls[e])]

FiniteIndices(icers) == {k \in 1..Len(icers) : icers[k].kind = "fin"}

\* The statistic lies within the values of the draws of the set given, and
\* is nan when the set is empty.
StatOver(stat, values, draws) ==
    IF draws = {} THEN stat.kind = "nan"
    ELSE /\ stat.kind = "fin"
         /\ \E k \in draws : values[k] <= stat.val
         /\ \E k \in draws : values[k] >= stat.val

IcerValues(icers) == [k \in 1..Len(icers) |-> icers[k].val]

C16_IcersRetainedStatsOverFinite ==
    \A e \in Engines : MadeAllDraws(e) =>
        /\ "icers" \in DOMAIN out[e]
        /\ Len(out[e].icers) = LastN(e)
        /\ Len(out[e].qalys) = LastN(e)
        /\ \A k \in 1..LastN(e) : out[e].qalys[k] <= 0 => out[e].icers[k] = Infinity
        /\ StatOver(out[e].icer_median, IcerValues(out[e].icers), FiniteIndices(out[e].icers))
        /\ kind = "lifecycle" =>
              /\ StatOver(out[e].icer_mean, IcerValues(out[e].icers), FiniteIndices(out[e].icers))
              /\ \A b \in 1..2 : StatOver(out[e].icer_ci_95[b], IcerValues(out[e].icers),
                                          FiniteIndices(out[e].icers))
        /\ StatOver(out[e].qaly_mean, out[e].qalys, 1..LastN(e))
        /\ StatOver(out[e].qaly_median, out[e].qalys, 1..LastN(e))

(***************************************************************************)
(* C17.  In every draw of run_monte_carlo the parameter object passed to   *)
(* run is a new one in which only the sampled fields                       *)
(* differ from the caller's; every other field (start_age, max_age,        *)
(* discount_rate, annual_cost, the sd fields, and for PathwayParams        *)
(* confounding_alpha and confounding_beta) is copied unchanged, and the    *)
(* caller's params object is never modified.                               *)
(***************************************************************************)
\* Engine e has built the parameter object of a draw.
DrawBuilt(e) == sim_params[e] # NoParams

SampledFields(k) ==
    IF k = "lifecycle" THEN {"hazard_ratio", "confounding_adjustment", "nut_adjustment"}
    ELSE {"rr_cvd", "rr_cancer", "rr_other", "confounding_adjustment", "nut_adjustment"}

\* The fields of the set given are the caller's.
CopiedUnchanged(e, fields) ==
    /\ DOMAIN sim_params[e] = DOMAIN params
    /\ \A f \in fields : sim_params[e][f] = params[f]

\* No step of a Monte Carlo call changes the caller's object.
CallerParamsKept == (\E e \in Engines : pc[e] \notin {"unbuilt", "idle"}) => params' = params

OtherFieldsCopied ==
    \A e \in Engines : DrawBuilt(e) =>
        CopiedUnchanged(e, DOMAIN params \ SampledFields(kind))

C17_OtherFieldsCopied == []OtherFieldsCopied /\ [][CallerParamsKept]_vars

(***************************************************************************)
(* C18.  get_nut_cost(nut_id) raises ValueError for every nut_id that is   *)
(* not in the cost table and returns the matching cost record otherwise;   *)
(* run_nut_cea(nut_id) with an unknown nut_id raises that ValueError       *)
(* before any parameter object is built or any simulation work is done.    *)
(***************************************************************************)
KnownNut(nut_id) == \E id \in DOMAIN NUT_COSTS : id = nut_id

C18_UnknownNutRaisesFirst ==
    /\ Asked("get_nut_cost") =>
          IF KnownNut(query.arg)
          THEN query.raised = "no" /\ query.result.nut_id = query.arg
          ELSE query.raised = "ValueError"
    /\ Asked("run_nut_cea") =>
          IF KnownNut(query.arg)
          THEN query.raised = "no"
          ELSE /\ query.raised = "ValueError"
               /\ \A k \in 1..Len(query.steps) :
                     query.steps[k] \notin {"LifecycleParams", "LifecycleCEA", "run"}

\* run_nut_cea has been called with an id that is not in the cost table.
C18_Witness ==
    /\ Asked("run_nut_cea")
    /\ query.arg = "invalid_nut"
    /\ query.raised = "ValueError"
    /\ query.steps = <<"get_nut_cost">>

(***************************************************************************)
(* C19.  An age curve with no anchors, or with anchors that are not        *)
(* sorted, is rejected when the curve is constructed (a fatal error at     *)
(* construction time); no call of an interpolation function at query time  *)
(* can be the first place where such a defect surfaces as an error.        *)
(* Here: no call of a curve function raises on account of its table.       *)
(***************************************************************************)
CurveFunctions ==
    {"interpolate_mortality", "get_quality_weight", "interpolate_cause_fractions",
     "get_mortality_curve", "get_quality_curve"}

SimReturned(e) == kind = "simulation" /\ calls[e] # <<>> /\ "results" \in DOMAIN out[e]

NutIdsOf(s) == {s[k].id : k \in 1..Len(s)}

C20_OneResultPerNutByMedian ==
    \A e \in Engines : SimReturned(e) =>
        /\ Len(out[e].results) = Len(NUTS)
        /\ {out[e].results[k].nut_id : k \in 1..Len(out[e].results)} = NutIdsOf(NUTS)
        /\ \A k \in 1..Len(out[e].results) :
              Len(out[e].results[k].samples) = out[e].params.n_simulations
        /\ \A k \in 1..(Len(out[e].results) - 1) :
              out[e].results[k].median >= out[e].results[k + 1].median

\* A run of more than one sample a nut whose sort changed the order of NUTS
\* and separated the first median from the last.
C20_Witness ==
    \E e \in Engines :
        /\ SimReturned(e)
        /\ out[e].params.n_simulations = MaxSims
        /\ \E k \in 1..Len(NUTS) : out[e].results[k].nut_id # NUTS[k].id
        /\ out[e].results[1].median > out[e].results[Len(NUTS)].median

(***************************************************************************)
(* C21.  In both engines each arm's survival array has length              *)
(* max_age - start_age + 1, with S[0] = 1 and S[t] = S[t - 1] * (1 -       *)
(* m[t - 1]) for t >= 1, computed for the baseline and for the             *)
(* intervention mortality independently; hence the mortality of the final  *)
(* year (age max_age) affects no output.  The arrays are those             *)
(* LifecycleResult carries; the final year is replaced by 0 and by 1 in    *)
(* both engines.                                                           *)
(***************************************************************************)
\* S[0] = 1 and each later entry is the one before times (1 - the mortality
\* of the year before), for the yearly mortality m(t) of the arm.
IsSurvivalOf(S, m(_)) ==
    /\ Len(S) = NYears
    /\ S[1] = Scale
    /\ \A t \in 1..(NYears - 1) : S[t + 1] = MulFix[S[t], Scale - m(t)]

BaselineMortality(t) == interpolate_mortality(params.start_age + (t - 1))

InterventionMortality(t) ==
    MulFix[BaselineMortality(t),
           EffectiveRR(params.hazard_ratio, params.nut_adjustment, params.confounding_adjustment)]

\* run on the caller's parameters with the mortality of age max_age replaced.
RunWithFinalMortality(x) ==
    LET curve == [get_mortality_curve(params.start_age, params.max_age) EXCEPT ![NYears] = x]
    IN  IF kind = "lifecycle"
        THEN LifecycleFromCurves[curve, get_quality_curve(params.start_age, params.max_age),
                 EffectiveRR(params.hazard_ratio, params.nut_adjustment, params.confounding_adjustment),
                 params.discount_rate, params.annual_cost]
        ELSE PathwayFromCurves[params.start_age, curve,
                 get_quality_curve(params.start_age, params.max_age),
                 EffectiveRRs(params), params.discount_rate, params.annual_cost]

C21_SurvivalShiftedProduct ==
    Ran =>
        /\ kind = "lifecycle" =>
              /\ IsSurvivalOf(last_run.survival_baseline, BaselineMortality)
              /\ IsSurvivalOf(last_run.survival_intervention, InterventionMortality)
        /\ \A x \in {0, Scale} : RunWithFinalMortality(x) = last_run

\* A run of several years in which the two arms have drifted apart.
C21_Witness ==
    /\ Ran /\ kind = "lifecycle"
    /\ NYears > 2
    /\ last_run.survival_baseline[NYears] < last_run.survival_baseline[2]
    /\ last_run.survival_intervention[NYears] > last_run.survival_baseline[NYears]

(***************************************************************************)
(* C22.  For every age and every triple of relative risks,                 *)
(* get_weighted_rr(age, rr_cvd, rr_cancer, rr_other) is the share-weighted *)
(* sum of the three relative risks and therefore lies between the minimum  *)
(* and the maximum of the three, within the rounding of the three products *)
(* (one unit of the fixed point).                                          *)
(***************************************************************************)
TripleMin(rr) == SetMin({rr[1], rr[2], rr[3]})
TripleMax(rr) == SetMax({rr[1], rr[2], rr[3]})

RunAtRate(d) == RunOf(kind, [params EXCEPT !.discount_rate = d])

DiscountingLowersGains ==
    /\ last_run.life_years_gained > 0 =>
          last_run.life_years_gained_discounted < last_run.life_years_gained
    /\ last_run.qalys_gained > 0 =>
          last_run.qalys_gained_discounted < last_run.qalys_gained
    /\ kind = "pathway" =>
          /\ RunAtRate(0).life_years_gained_discounted > 0 =>
                last_run.life_years_gained_discounted < RunAtRate(0).life_years_gained_discounted
          /\ RunAtRate(0).qalys_gained_discounted > 0 =>
                last_run.qalys_gained_discounted < RunAtRate(0).qalys_gained_discounted

\* No cause-specific effective relative risk of the pathway engine is above
\* 1: no year's survival gain is negative.
NoHarmfulPathway ==
    kind = "pathway" => \A c \in 1..3 : EffectiveRRs(params)[c] <= Scale

\* The same with "not above" for "strictly below": the fixed point cannot
\* separate a gain of a few units from its discounted value, so that a
\* violation of this weaker form is a discounted gain above the
\* undiscounted one.
DiscountingDoesNotRaiseGains ==
    /\ last_run.life_years_gained > 0 =>
          last_run.life_years_gained_discounted <= last_run.life_years_gained
    /\ last_run.qalys_gained > 0 =>
          last_run.qalys_gained_discounted <= last_run.qalys_gained
    /\ kind = "pathway" =>
          /\ RunAtRate(0).life_years_gained_discounted > 0 =>
                last_run.life_years_gained_discounted <= RunAtRate(0).life_years_gained_discounted
          /\ RunAtRate(0).qalys_gained_discounted > 0 =>
                last_run.qalys_gained_discounted <= RunAtRate(0).qalys_gained_discounted

\* C23 as stated, for every parameter set with a positive gain: the
\* discounted gains are below, and so not above, the undiscounted ones.
C23_DiscountedGainBelowUndiscounted ==
    (Ran /\ params.discount_rate > 0) => DiscountingDoesNotRaiseGains

\* C23, amended: the pathway engine's part holds when no effective
\* cause-specific relative risk exceeds 1; a gain that is positive early and
\* negative late is raised, not lowered, by discounting.
C23_DiscountedGainBelowUndiscountedWhenNoHarm ==
    (Ran /\ params.discount_rate > 0 /\ NoHarmfulPathway) => DiscountingLowersGains

\* A discounted pathway run of several years with protective risks and a
\* positive gain.
C23_Witness ==
    /\ Ran /\ kind = "pathway"
    /\ params.discount_rate > 0
    /\ NYears > 2
    /\ \A c \in 1..3 : EffectiveRRs(params)[c] < Scale
    /\ last_run.life_years_gained > 0
    /\ last_run.life_years_gained_discounted < last_run.life_years_gained
    /\ last_run.life_years_gained_discounted < RunAtRate(0).life_years_gained_discounted

(***************************************************************************)
(* C24.  total_cost_discounted is the sum over the years of                *)
(* annual_cost * S_int[t] * (1+r)^(-t): it is computed from the            *)
(* intervention arm's survival only, and for annual_cost >= 0 and          *)
(* discount_rate >= 0 it is at least annual_cost and at most               *)
(* annual_cost * (max_age - start_age + 1).                                *)
(***************************************************************************)
\* The intervention arm's survival curve of the caller's parameters.
InterventionSurvival ==
    LET mortality == get_mortality_curve(params.start_age, params.max_age)
        rr == EffectiveRRs(params)
    IN  IF kind = "lifecycle"
        THEN last_run.survival_intervention
        ELSE SurvivalCurve[[t \in 1..NYears |->
                 MulFix[mortality[t],
                        get_weighted_rr(params.start_age + (t - 1), rr[1], rr[2], rr[3])]]]

CostIsInterventionSum ==
    last_run.total_cost_discounted =
        SumSeq[[t \in 1..NYears |->
            MulFix[MulFix[InterventionSurvival[t], params.annual_cost],
                   DiscountFactors[params.discount_rate, NYears][t]]]]

\* The totals of the same intervention arm against a baseline arm in which
\* nobody dies.
TotalsAgainstImmortalBaseline ==
    LET immortal == [t \in 1..NYears |-> Scale]
        quality == get_quality_curve(params.start_age, params.max_age)
        discount == DiscountFactors[params.discount_rate, NYears]
    IN  IF kind = "lifecycle"
        THEN LifecycleTotals[immortal, InterventionSurvival, quality, discount, params.annual_cost]
        ELSE PathwayFromSurvival[immortal, InterventionSurvival,
                 [t \in 1..NYears |-> CauseContrib(params.start_age + (t - 1), EffectiveRRs(params))],
                 quality, discount, params.annual_cost]

CostIndependentOfBaseline ==
    /\ TotalsAgainstImmortalBaseline.total_cost_discounted = last_run.total_cost_discounted
    /\ NYears > 1 => TotalsAgainstImmortalBaseline.life_years_gained # last_run.life_years_gained

CostAtMostEveryYearInFull ==
    last_run.total_cost_discounted <= params.annual_cost * NYears

CostAtLeastFirstYear ==
    last_run.total_cost_discounted >= params.annual_cost

C24_CostFromInterventionArmWithinBounds ==
    (Ran /\ params.annual_cost >= 0 /\ params.discount_rate >= 0) =>
        /\ CostIsInterventionSum
        /\ CostIndependentOfBaseline
        /\ CostAtMostEveryYearInFull
        /\ CostAtLeastFirstYear

(***************************************************************************)
(* C25.  In PathwayLifecycleCEA.run the three contribution weights of an   *)
(* age are share * (1 - effective rr) normalised to sum to 1; when the     *)
(* total reduction of the age is 0 all three weights are 0, and no weight  *)
(* and no reported contribution fraction is the result of a division by    *)
(* zero: with no discounted gain the reported fractions are 0.             *)
(***************************************************************************)
ReductionsAt(t) ==
    CauseReductions[interpolate_cause_fractions(params.start_age + t), EffectiveRRs(params)]

WeightsAt(t) == CauseContrib(params.start_age + t, EffectiveRRs(params))

\* The weights of the age sum to 1, within the rounding of three quotients.
WeightsSumToOne(t) == Abs[SumSeq[WeightsAt(t)] - Scale] <= 2

C25_WeightsNormalisedOrZero ==
    (Ran /\ kind = "pathway") =>
        /\ \A t \in 0..(NYears - 1) :
              IF SumSeq[ReductionsAt(t)] = 0
              THEN WeightsAt(t) = <<0, 0, 0>>
              ELSE WeightsSumToOne(t)
        /\ last_run.life_years_gained_discounted <= 0 =>
              /\ last_run.cvd_contribution = 0
              /\ last_run.cancer_contribution = 0
              /\ last_run.other_contribution = 0

(***************************************************************************)
(* C26.  LifecycleCEA.run and PathwayLifecycleCEA.run are pure with        *)
(* respect to engine state: a call of run leaves the streams of the        *)
(* engines, the parameter object and the module-level tables as they were  *)
(* and its result is a function of the parameters alone, so that a second  *)
(* call returns the same result and run calls before or between            *)
(* run_monte_carlo calls leave the Monte Carlo output unchanged: engines   *)
(* with the same seed and the same Monte Carlo calls have the same output  *)
(* whatever run calls were made on them.                                   *)
(***************************************************************************)
\* A step in which run returns a result.
RunReturns == last_run' # last_run

RunLeavesEngineState ==
    RunReturns => UNCHANGED <<rng, seed, params, tables, out, arrays, sampled, log, calls, pc>>

RunIsFunctionOfParams == Ran => last_run = RunOf(kind, params)

C26_RunIsPure ==
    /\ [][RunLeavesEngineState]_vars
    /\ [](RunIsFunctionOfParams /\ (SameSeedSameCalls => out[1] = out[2]))

\* run has been called, and two engines of the same seed have each made a
\* Monte Carlo call: wherever the run calls fell, the outputs agree and the
\* stream is where the draws of the Monte Carlo call alone leave it.
C26_Witness ==
    /\ Ran /\ kind \in {"lifecycle", "pathway"}
    /\ SameSeedSameCalls
    /\ "qalys" \in DOMAIN out[1]
    /\ out[1] = out[2]
    /\ rng[1] = AdvanceBy[SeedState(seed[1]), Len(SamplingOrder(kind)) * calls[1][1]]

(***************************************************************************)
(* C27.  run_monte_carlo only advances the stream of its instance, it      *)
(* never resets it: with the same seed and parameters the arrays of a call *)
(* of size k are the first k entries of the arrays of a call of size       *)
(* n >= k, and two consecutive calls of sizes a and b on one instance      *)
(* return, put end to end, the arrays of one call of size a + b.           *)
(***************************************************************************)
\* The values one draw samples from the stream in state s for the caller's
\* parameter object p, in the order of the sampling calls.
SampleOf(p, s) ==
    LET word(j) == AdvanceBy[s, j]
    IN  IF kind = "lifecycle"
        THEN [NoSample EXCEPT
                 !.hr = ExpFix[Normal(LnFix[p.hazard_ratio], p.hazard_ratio_sd, word(1))],
                 !.adj = Normal(p.nut_adjustment, p.nut_adjustment_sd, word(2)),
                 !.conf = Beta(p.confounding_adjustment * 10,
                               (Scale - p.confounding_adjustment) * 10, word(3))]
        ELSE [NoSample EXCEPT
                 !.rr_cvd = ExpFix[Normal(LnFix[p.rr_cvd], p.rr_cvd_sd, word(1))],
                 !.rr_cancer = ExpFix[Normal(LnFix[p.rr_cancer], p.rr_cancer_sd, word(2))],
                 !.rr_other = ExpFix[Normal(LnFix[p.rr_other], p.rr_other_sd, word(3))],
                 !.conf = Beta(p.confounding_alpha, p.confounding_beta, word(4)),
                 !.adj = Normal(p.nut_adjustment, p.nut_adjustment_sd, word(5))]

\* What draw j of a single call with the parameter object p records, on a
\* fresh engine of the seed sd.
DrawOf(p, sd, j) ==
    LET s == AdvanceBy[SeedState(sd), Len(SamplingOrder(kind)) * (j - 1)]
        result == IF kind = "lifecycle"
                  THEN LifecycleCEA_run(LifecycleSimParams(p, SampleOf(p, s)))
                  ELSE PathwayLifecycleCEA_run(PathwaySimParams(p, SampleOf(p, s)))
    IN  IF kind = "lifecycle"
        THEN <<result.qalys_gained_discounted, result.cost_per_qaly, result.total_cost_discounted>>
        ELSE <<result.qalys_gained_discounted, result.cost_per_qaly,
               result.cvd_contribution, result.cancer_contribution>>

DrawOfSingleCall(sd, j) == DrawOf(params, sd, j)

\* What entry k of the arrays returned to the caller of engine e holds.
DrawReturned(e, k) ==
    IF kind = "lifecycle"
    THEN <<out[e].qalys[k], out[e].icers[k], out[e].costs[k]>>
    ELSE <<out[e].qalys[k], out[e].icers[k],
           out[e].cvd_contributions[k], out[e].cancer_contributions[k]>>

\* Engine e, built with a seed, has returned the arrays of its last call.
ReturnedArrays(e) ==
    /\ kind \in {"lifecycle", "pathway"}
    /\ pc[e] = "idle" /\ NoCallInProgress
    /\ seed[e] # None
    /\ calls[e] # <<>>
    /\ "qalys" \in DOMAIN out[e]

\* The draws made on engine e before its last call.
DrawsBefore(e) == SumSeq[SubSeq(calls[e], 1, Len(calls[e]) - 1)]

C27_StreamOnlyAdvanced ==
    /\ \A e \in Engines : ReturnedArrays(e) =>
          /\ Len(out[e].qalys) = LastN(e)
          /\ \A k \in 1..LastN(e) :
                DrawReturned(e, k) = DrawOfSingleCall(seed[e], DrawsBefore(e) + k)
    /\ (ReturnedArrays(1) /\ ReturnedArrays(2) /\ seed[1] = seed[2]
          /\ Len(calls[1]) = 1 /\ Len(calls[2]) = 1 /\ calls[1][1] <= calls[2][1]) =>
          \A k \in 1..calls[1][1] : DrawReturned(1, k) = DrawReturned(2, k)

\* The second call of size 1 on an engine has returned the second draw of a
\* single call of size 2, which differs from the first.
C27_Witness ==
    /\ ReturnedArrays(1)
    /\ calls[1] = <<1, 1>>
    /\ DrawReturned(1, 1) = DrawOfSingleCall(seed[1], 2)
    /\ DrawReturned(1, 1) # DrawOfSingleCall(seed[1], 1)

(***************************************************************************)
(* C28.  MonteCarloSimulation.run replaces the stream of the instance by a *)
(* fresh one seeded with params.seed whenever params.seed is not None: the *)
(* result is then the one of that fresh stream, the same for any           *)
(* constructor seed and after any number of earlier runs.  When            *)
(* params.seed is None the run continues the stream of the instance: the   *)
(* result is the one of the constructor's stream moved on by the words of  *)
(* the earlier runs.                                                       *)
(***************************************************************************)
\* The words a run that returns reads from the stream.
WordsOfRun(p) == 7 * p.n_simulations * Len(NUTS)

\* The run of engine e that returned last started from the stream state s.
LastRunStartedFrom(e, s) ==
    /\ out[e] = SimulationResult(params, s)
    /\ rng[e] = AdvanceBy[s, WordsOfRun(params)]

C28_ParamsSeedReplacesStream ==
    /\ \A e \in Engines : SimReturned(e) =>
          IF params.seed # None
          THEN LastRunStartedFrom(e, SeedState(params.seed))
          ELSE \E s \in InitialStreams(seed[e]) :
                  LastRunStartedFrom(e, AdvanceBy[s, WordsOfRun(params) * (Len(calls[e]) - 1)])
    /\ (SimReturned(1) /\ SimReturned(2) /\ params.seed # None) =>
          out[1] = out[2]

\* params carries a seed; an engine built without a seed and an engine built
\* with one have returned the same result.
C28_Witness ==
    /\ SimReturned(1) /\ SimReturned(2)
    /\ params.seed # None
    /\ seed[1] = None /\ seed[2] # None
    /\ out[1] = out[2]
    /\ out[1].results[1].median > out[1].results[Len(NUTS)].median

(***************************************************************************)
(* C29.  PathwayLifecycleCEA.run_monte_carlo samples confounding from      *)
(* Beta(confounding_alpha, confounding_beta) only: its arrays are the      *)
(* same for parameter objects that differ in confounding_adjustment alone. *)
(* LifecycleCEA.run_monte_carlo samples it from Beta(c * 10, (1 - c) * 10) *)
(* for c = confounding_adjustment, and the value sampled changes with c.   *)
(***************************************************************************)
\* Other values the caller could have given confounding_adjustment.
OtherConfounding == {20000, 50000, 100000} \ {params.confounding_adjustment}

WithConfounding(c) == [params EXCEPT !.confounding_adjustment = c]

\* The word the last sampling call of engine e drew.
LastWord(e) == log[e][Len(log[e])].word

\* Engine e has just sampled confounding.
ConfoundingSampled(e) ==
    /\ kind \in {"lifecycle", "pathway"}
    /\ pc[e] = After(SamplingOrder(kind), "conf")
    /\ log[e] # <<>>
    /\ log[e][Len(log[e])].label = "conf"

C29_PathwayIgnoresConfoundingAdjustment ==
    \A e \in Engines :
        /\ (ReturnedArrays(e) /\ kind = "pathway") =>
              \A c \in OtherConfounding, k \in 1..LastN(e) :
                  DrawReturned(e, k) = DrawOf(WithConfounding(c), seed[e], DrawsBefore(e) + k)
        /\ (ConfoundingSampled(e) /\ kind = "pathway") =>
              sampled[e].conf = Beta(params.confounding_alpha, params.confounding_beta, LastWord(e))
        /\ (ConfoundingSampled(e) /\ kind = "lifecycle") =>
              /\ sampled[e].conf = Beta(params.confounding_adjustment * 10,
                                        (Scale - params.confounding_adjustment) * 10, LastWord(e))
              /\ \A c \in OtherConfounding :
                    sampled[e].conf # Beta(c * 10, (Scale - c) * 10, LastWord(e))

\* A pathway call has returned two draws that differ, each the draw of the
\* parameter object with another confounding_adjustment.
C29_Witness ==
    /\ ReturnedArrays(1) /\ kind = "pathway"
    /\ calls[1] = <<MaxSims>>
    /\ DrawReturned(1, 1) # DrawReturned(1, 2)
    /\ \A k \in 1..MaxSims : DrawReturned(1, k) = DrawOf(WithConfounding(Scale), seed[1], k)

(***************************************************************************)
(* C30.  For every parameter set whose effective hazard ratio (every       *)
(* effective cause-specific relative risk, in the pathway engine) lies in  *)
(* [0, 1], both survival arrays are non-increasing in t and stay inside    *)
(* [0, 1], and S_int[t] >= S_base[t] for every t, so that every per-year   *)
(* life-year and QALY gain and each total gain is non-negative.            *)
(***************************************************************************)
EffectiveWithinUnitInterval ==
    IF kind = "lifecycle"
    THEN LET hr == EffectiveRR(params.hazard_ratio, params.nut_adjustment, params.confounding_adjustment)
         IN  0 <= hr /\ hr <= Scale
    ELSE \A c \in 1..3 : 0 <= EffectiveRRs(params)[c] /\ EffectiveRRs(params)[c] <= Scale

\* The baseline arm's survival curve of the caller's parameters.
BaselineSurvival == SurvivalCurve[get_mortality_curve(params.start_age, params.max_age)]

\* S is a survival curve: inside [0, 1] and non-increasing.
IsSurvivalCurve(S) ==
    /\ \A t \in 1..Len(S) : 0 <= S[t] /\ S[t] <= Scale
    /\ \A t \in 1..(Len(S) - 1) : S[t + 1] <= S[t]

\* The two arms sb, si and the quality weights q are those of an ordered
\* pair of survival curves with non-negative yearly gains.
OrderedArms(sb, si, q) ==
    /\ IsSurvivalCurve(sb)
    /\ IsSurvivalCurve(si)
    /\ \A t \in 1..Len(sb) :
          /\ si[t] >= sb[t]
          /\ MulFix[si[t] - sb[t], q[t]] >= 0

C30_SurvivalOrderedGainsNonNegative ==
    (Ran /\ EffectiveWithinUnitInterval) =>
        /\ \E sb \in { BaselineSurvival }, si \in { InterventionSurvival },
              q \in { get_quality_curve(params.start_age, params.max_age) } :
              /\ OrderedArms(sb, si, q)
              /\ kind = "lifecycle" => last_run.survival_baseline = sb
        /\ kind = "lifecycle" => \A t \in 1..NYears : last_run.annual_qalys_gained[t] >= 0
        /\ last_run.life_years_gained >= 0
        /\ last_run.qalys_gained >= 0
        /\ last_run.life_years_gained_discounted >= 0
        /\ last_run.qalys_gained_discounted >= 0

\* A protective pathway run over ages at which the baseline mortality
\* reaches 1: both arms fall, the intervention arm stays above.
C30_Witness ==
    /\ Ran /\ kind = "pathway" /\ EffectiveWithinUnitInterval
    /\ NYears > 3
    /\ \A c \in 1..3 : EffectiveRRs(params)[c] < Scale
    /\ BaselineSurvival[NYears] = 0
    /\ InterventionSurvival[NYears] > 0
    /\ InterventionSurvival[NYears] < InterventionSurvival[2]
    /\ last_run.qalys_gained_discounted > 0

=============================================================================
